---- MODULE Spec2Model ----
(***************************************************************************)
(* Model of the BlueDisplay serial protocol engine (BlueSerial.cpp):       *)
(* the receive interrupt USART_RX_vect with its two event mailboxes, the   *)
(* command encoders sendUSART...Args... with the blocking transmit loop,   *)
(* and the event dispatcher handleEvent with its callback registry.        *)
(***************************************************************************)
EXTENDS Integers, Sequences, FiniteSets, TLC

(***************************************************************************)
(* Program constants                                                       *)
(***************************************************************************)
\* BlueSerial.cpp:166 "Sync Byte A5"
SYNC_TOKEN == 165
\* EventHandler.h (not part of the sources at hand): event tags
EVENT_TAG_NO_EVENT == 255
EVENT_TAG_TOUCH_ACTION_DOWN == 0
EVENT_TAG_TOUCH_ACTION_MOVE == 2
EVENT_TAG_FIRST_CALLBACK_ACTION_CODE == 32
EVENT_TAG_BUTTON_CALLBACK_ACTION == 32
EVENT_TAG_SLIDER_CALLBACK_ACTION == 33
\* BlueSerial.cpp:125
RECEIVE_TOUCH_OR_DISPLAY_DATA_SIZE == 4
\* BlueSerial.cpp:126-127 "Buffer for 12 bytes"
RECEIVE_CALLBACK_DATA_SIZE == 12
\* BlueSerial.cpp:46
MAX_NUMBER_OF_ARGS == 12
\* BlueSerial.cpp:38
DATAFIELD_TAG_BYTE == 1

(***************************************************************************)
(* Bounds of the model                                                     *)
(***************************************************************************)
\* number of items (frames or stray bytes) of a received stream
MaxItems == 3

VARIABLES
    \* ---- receiver (BlueSerial.cpp:128-130, 267, 270) ----
    sReceiveBuffer,             \* uint8_t [RECEIVE_CALLBACK_DATA_SIZE]
    sReceiveBufferIndex,        \* uint8_t
    sReceiveBufferOutOfSync,    \* bool
    sReceivedEventType,         \* uint8_t
    allowTouchInterrupts,       \* bool
    \* ---- the two mailbox slots (struct BluetoothEvent) ----
    remoteTouchEvent,
    remoteTouchDownEvent,
    \* ---- the byte source: the stream the host sends, and how much of it
    \*      the USART has delivered so far ----
    scenario,                   \* the items the stream is made of
    stream,                     \* its bytes
    ends,                       \* ends[k]: offset just after item k
    pos,                        \* number of bytes delivered to the ISR
    idleAt,                     \* offsets at which the decoder was IDLE
    oosAt,                      \* offsets at which it was OUT_OF_SYNC
    \* ---- feeding two streams one after the other to the same decoder
    pass,                       \* 0: one stream only; 1, 2: first, second
    replay,                     \* the items of the other stream
    trace,                      \* what was observable after each byte of
                                \* the first stream
    serialAvailable,            \* Serial.available(): bytes received and
                                \* not yet read (build without
                                \* USE_SIMPLE_SERIAL)
    \* ---- the handler registry of the dispatcher ----
    buttonCallbacks,            \* handle -> callback, for buttons
    sliderCallbacks,            \* handle -> callback, for sliders
    basicTouchHandler,          \* is the touch/sensor handler registered
    \* ---- what was called: handleEvent by the ISR, handlers by handleEvent
    isrDispatch,
    invoked,
    \* ---- the main loop taking an event out of a slot, step by step
    mainPc,                     \* "idle", "type" (EventType read),
                                \* "initSimpleSerial:102" (inside that call),
                                \* "payload" (payload read)
    mainEvent,                  \* the slot it reads and its local copy
    handled,                    \* the events it has handled
    \* ---- the command encoder and the transmitter (BlueSerial.cpp:135-260)
    txCall,                     \* the send function running and its arguments
    txPc,                       \* "idle", "param" (138-147), "data" (148-157),
                                \* "done"
    tParamBuffer,               \* the 16 bit words written to the buffer
    aParameterBufferPointer,    \* byte offset into tParamBuffer
    aParameterBufferLength,     \* int
    aDataBufferPointer,         \* byte offset into the data buffer
    aDataBufferLength,          \* int16_t
    UDRE0,                      \* USART data register empty
    wire,                       \* bytes written to UDR0 by the running call
    \* ---- the Chart object (STM32/lib/graphics/src/Chart.cpp) ----
    mAxesSize,
    mPositionX,
    mPositionY,
    mWidthX,
    mHeightY,
    mGridXSpacing,
    mXScaleFactor,
    mXLabelStartValue,          \* .IntValue
    mXLabelBaseIncrementValue,  \* .IntValue
    mYLabelStartValue,          \* .IntValue
    mYLabelIncrementValue,      \* .IntValue
    chartCall                   \* the last call of a Chart function: its
                                \* arguments, what it read and returned

rxVars == <<sReceiveBuffer, sReceiveBufferIndex, sReceiveBufferOutOfSync,
            sReceivedEventType>>
slotVars == <<remoteTouchEvent, remoteTouchDownEvent>>
srcVars == <<scenario, stream, ends, pos, idleAt, oosAt, pass, replay,
             trace, serialAvailable>>
regVars == <<buttonCallbacks, sliderCallbacks, basicTouchHandler>>
logVars == <<isrDispatch, invoked>>
txVars == <<txCall, txPc, tParamBuffer, aParameterBufferPointer,
            aParameterBufferLength, aDataBufferPointer, aDataBufferLength,
            UDRE0, wire>>
mainVars == <<mainPc, mainEvent, handled>>
chartVars == <<mAxesSize, mPositionX, mPositionY, mWidthX, mHeightY,
               mGridXSpacing, mXScaleFactor, mXLabelStartValue,
               mXLabelBaseIncrementValue, mYLabelStartValue,
               mYLabelIncrementValue, chartCall>>
vars == <<rxVars, allowTouchInterrupts, slotVars, srcVars, regVars, logVars,
          mainVars, txVars, chartVars>>

Byte == 0..255
BufIdx == 0..(RECEIVE_CALLBACK_DATA_SIZE - 1)

Last(s) == s[Len(s)]

(***************************************************************************)
(* The received stream.  A stream is a sequence of items; an item is an    *)
(* event frame [length][tag][payload][trailer] or one stray byte.          *)
(***************************************************************************)
PayloadTable ==
    << <<3, 0, 7, 0, 17, 18, 19, 20, 21, 22, 23, 24>>,
       <<4, 0, 9, 0, 33, 34, 35, 36, 37, 38, 39, 40>>,
       <<3, 0, SYNC_TOKEN, 0, 49, 50, 51, 52, 53, 54, 55, 56>>,
       <<255, 255, 255, 255, 255, 255, 255, 255, 255, 255, 255, 255>> >>

\* every frame is taken to have the size of a callback frame
tDataSize_AlwaysCallback(aEventType) == RECEIVE_CALLBACK_DATA_SIZE

\* every frame is taken to have the size of a touch frame
tDataSize_AlwaysTouch(aEventType) == RECEIVE_TOUCH_OR_DISPLAY_DATA_SIZE

\* BlueSerial.cpp:292-299
tDataSize(aEventType) ==
    IF aEventType < EVENT_TAG_FIRST_CALLBACK_ACTION_CODE
    THEN RECEIVE_TOUCH_OR_DISPLAY_DATA_SIZE
    ELSE RECEIVE_CALLBACK_DATA_SIZE

\* the payload size the wire format gives a frame of this tag
FrameSize(tag) ==
    IF tag < EVENT_TAG_FIRST_CALLBACK_ACTION_CODE
    THEN RECEIVE_TOUCH_OR_DISPLAY_DATA_SIZE
    ELSE RECEIVE_CALLBACK_DATA_SIZE

Payload(p, size) == SubSeq(PayloadTable[p], 1, size)

FrameKinds ==
    { [len |-> 7,  tag |-> EVENT_TAG_TOUCH_ACTION_DOWN, p |-> 1],
      [len |-> 7,  tag |-> EVENT_TAG_TOUCH_ACTION_MOVE, p |-> 2],
      [len |-> 15, tag |-> EVENT_TAG_BUTTON_CALLBACK_ACTION, p |-> 1],
      [len |-> 15, tag |-> EVENT_TAG_SLIDER_CALLBACK_ACTION, p |-> 3],
      [len |-> 15, tag |-> EVENT_TAG_NO_EVENT, p |-> 2],
      [len |-> SYNC_TOKEN, tag |-> EVENT_TAG_TOUCH_ACTION_MOVE, p |-> 4] }

\* trailing bytes: the sync token, or a corrupted one
BadTrailer == 90
StrayBytes == {SYNC_TOKEN, 0}

Items ==
    [kind : {"frame"}, f : FrameKinds, trailer : {SYNC_TOKEN}, b : {0}]
    \cup [kind : {"frame"},
          f : {k \in FrameKinds : k.len = 7},
          trailer : {BadTrailer}, b : {0}]
    \cup [kind : {"stray"}, f : {CHOOSE k \in FrameKinds : k.len = SYNC_TOKEN},
          trailer : {0}, b : StrayBytes]

ItemBytes(it) ==
    IF it.kind = "stray" THEN <<it.b>>
    ELSE <<it.f.len, it.f.tag>> \o Payload(it.f.p, FrameSize(it.f.tag))
         \o <<it.trailer>>

RECURSIVE StreamBytes(_)
StreamBytes(its) ==
    IF its = <<>> THEN <<>>
    ELSE ItemBytes(Head(its)) \o StreamBytes(Tail(its))

\* offset of the first byte of item k (0-based), and the offset after it
ItemEnds(its) == [k \in 1..Len(its) |-> Len(StreamBytes(SubSeq(its, 1, k)))]
ItemStart(k) == IF k = 1 THEN 0 ELSE ends[k - 1]
ItemEnd(k) == ends[k]

WellFormed(it) ==
    /\ it.kind = "frame"
    /\ it.trailer = SYNC_TOKEN
    /\ it.f.tag # EVENT_TAG_NO_EVENT

Scenarios == UNION { [1..n -> Items] : n \in 0..MaxItems }

(***************************************************************************)
(* The dispatcher, EventHandler.cpp handleEvent (modelled from the         *)
(* specification, sections 4.3 and 4.4; its source is not at hand).        *)
(***************************************************************************)
EmptyEvent ==
    [EventType |-> EVENT_TAG_NO_EVENT, ByteArray |-> [i \in BufIdx |-> 0]]

\* the log entry of one call of handleEvent with the event it was given
\* and the decoder state it finds (the call is made after lines 315-316)
HandleEventCall(aEvent, aSlot) ==
    [slot |-> aSlot, type |-> aEvent.EventType, data |-> aEvent.ByteArray,
     at |-> pos + 1,
     index |-> sReceiveBufferIndex', eventType |-> sReceivedEventType']

NoCallbacks == <<>>

\* section 4.4: resolve(handle, class) -> callback | NotFound
Resolve(aRegistry, aHandle) ==
    IF aHandle \in DOMAIN aRegistry THEN aRegistry[aHandle] ELSE "NotFound"

\* section 4.3: the widget class is told by the event kind
RegistryFor(aEventType) ==
    IF aEventType = EVENT_TAG_BUTTON_CALLBACK_ACTION THEN buttonCallbacks
    ELSE IF aEventType = EVENT_TAG_SLIDER_CALLBACK_ACTION THEN sliderCallbacks
    ELSE NoCallbacks

\* section 3: the payload read as {handle:uint16, value:int16}
Word(aLow, aHigh) == aLow + 256 * aHigh
Int16(aWord) == IF aWord >= 32768 THEN aWord - 65536 ELSE aWord
HandleOf(aEvent) == Word(aEvent.ByteArray[0], aEvent.ByteArray[1])
ValueOf(aEvent) == Int16(Word(aEvent.ByteArray[2], aEvent.ByteArray[3]))

\* the button registry is asked first, whatever the kind of the event
Invocations_ByHandleFirst(aEvent) ==
    IF aEvent.EventType = EVENT_TAG_NO_EVENT THEN <<>>
    ELSE LET cb == Resolve(buttonCallbacks, HandleOf(aEvent))
         IN  IF cb # "NotFound"
             THEN << [cb |-> cb, type |-> aEvent.EventType,
                      handle |-> HandleOf(aEvent),
                      value |-> ValueOf(aEvent)] >>
             ELSE IF basicTouchHandler
             THEN << [cb |-> "touchHandler", type |-> aEvent.EventType,
                      handle |-> HandleOf(aEvent),
                      value |-> ValueOf(aEvent)] >>
             ELSE <<>>

\* section 4.3: the handlers one call of handleEvent invokes
Invocations(aEvent) ==
    IF aEvent.EventType = EVENT_TAG_NO_EVENT THEN <<>>
    ELSE IF aEvent.EventType < EVENT_TAG_FIRST_CALLBACK_ACTION_CODE
    THEN IF basicTouchHandler
         THEN << [cb |-> "touchHandler", type |-> aEvent.EventType,
                  handle |-> HandleOf(aEvent), value |-> ValueOf(aEvent)] >>
         ELSE <<>>
    ELSE LET cb == Resolve(RegistryFor(aEvent.EventType), HandleOf(aEvent))
         IN  IF cb = "NotFound" THEN <<>>
             ELSE << [cb |-> cb, type |-> aEvent.EventType,
                      handle |-> HandleOf(aEvent),
                      value |-> ValueOf(aEvent)] >>

\* section 4.3: after dispatch the slot is cleared
Cleared(aEvent) == [aEvent EXCEPT !.EventType = EVENT_TAG_NO_EVENT]

(***************************************************************************)
(* The receive interrupt, ISR(USART_RX_vect), BlueSerial.cpp:272-333       *)
(***************************************************************************)
tByte == stream[pos + 1]

\* a copy that clears the destination behind the bytes copied
memcpy_ClearsTail(aDest, aSrc, aCount) ==
    [i \in DOMAIN aDest |-> IF i < aCount THEN aSrc[i] ELSE 0]

\* a copy that fills the destination back to front
memcpy_Reversed(aDest, aSrc, aCount) ==
    [i \in DOMAIN aDest |->
        IF i < aCount THEN aSrc[aCount - 1 - i] ELSE aDest[i]]

\* a copy that stops one byte early
memcpy_OneShort(aDest, aSrc, aCount) ==
    [i \in DOMAIN aDest |-> IF i < aCount - 1 THEN aSrc[i] ELSE aDest[i]]

\* string.h memcpy(dest, src, n) on byte arrays
memcpy(aDest, aSrc, aCount) ==
    [i \in DOMAIN aDest |-> IF i < aCount THEN aSrc[i] ELSE aDest[i]]

\* every touch event is put into the down slot
UseDownSlot_AnyTouch(aEventType) ==
    aEventType < EVENT_TAG_FIRST_CALLBACK_ACTION_CODE

\* there is no dedicated slot: every frame goes to the general slot
UseDownSlot_Never(aEventType) == FALSE

\* BlueSerial.cpp:306-311: the slot a completed frame is written to
UseDownSlot(aEventType) == aEventType = EVENT_TAG_TOUCH_ACTION_DOWN

\* what the rest of the program can observe of the receiver
Observable ==
    [general |-> remoteTouchEvent, down |-> remoteTouchDownEvent,
     outOfSync |-> sReceiveBufferOutOfSync, index |-> sReceiveBufferIndex,
     eventType |-> sReceivedEventType,
     dispatched |-> isrDispatch, invoked |-> invoked]

Delivered ==
    /\ pos' = pos + 1
    /\ trace' = IF pass = 1 THEN Append(trace, Observable') ELSE trace
    /\ idleAt' = IF /\ ~sReceiveBufferOutOfSync'
                    /\ sReceiveBufferIndex' = 0
                    /\ sReceivedEventType' = EVENT_TAG_NO_EVENT
                 THEN idleAt \cup {pos + 1} ELSE idleAt
    /\ oosAt' = IF sReceiveBufferOutOfSync'
                THEN oosAt \cup {pos + 1} ELSE oosAt
    /\ UNCHANGED <<scenario, stream, ends, pass, replay, allowTouchInterrupts,
                   serialAvailable, regVars, mainVars, chartVars,
                   txVars>>

\* the sync token ends OUT_OF_SYNC but the captured tag is kept
ISR_OutOfSync_KeepEventType ==
    /\ sReceiveBufferOutOfSync
    /\ IF tByte = SYNC_TOKEN
       THEN /\ sReceiveBufferOutOfSync' = FALSE
            /\ sReceiveBufferIndex' = 0
            /\ UNCHANGED sReceivedEventType
       ELSE UNCHANGED <<sReceiveBufferOutOfSync, sReceivedEventType,
                        sReceiveBufferIndex>>
    /\ UNCHANGED <<sReceiveBuffer, slotVars, logVars>>

\* the next byte, whatever it is, ends OUT_OF_SYNC
ISR_OutOfSync_AnyByte ==
    /\ sReceiveBufferOutOfSync
    /\ sReceiveBufferOutOfSync' = FALSE
    /\ sReceivedEventType' = EVENT_TAG_NO_EVENT
    /\ sReceiveBufferIndex' = 0
    /\ UNCHANGED <<sReceiveBuffer, slotVars, logVars>>

\* BlueSerial.cpp:274-280
ISR_OutOfSync ==
    /\ sReceiveBufferOutOfSync
    /\ IF tByte = SYNC_TOKEN
       THEN /\ sReceiveBufferOutOfSync' = FALSE
            /\ sReceivedEventType' = EVENT_TAG_NO_EVENT
            /\ sReceiveBufferIndex' = 0
       ELSE UNCHANGED <<sReceiveBufferOutOfSync, sReceivedEventType,
                        sReceiveBufferIndex>>
    /\ UNCHANGED <<sReceiveBuffer, slotVars, logVars>>

\* the index is not set back after the tag byte
ISR_Header_NoSkip ==
    /\ ~sReceiveBufferOutOfSync
    /\ sReceivedEventType = EVENT_TAG_NO_EVENT
    /\ IF sReceiveBufferIndex = 1
       THEN /\ sReceivedEventType' = tByte
            /\ UNCHANGED <<sReceiveBuffer, sReceiveBufferIndex>>
       ELSE /\ sReceiveBufferIndex \in BufIdx
            /\ sReceiveBuffer' =
                   [sReceiveBuffer EXCEPT ![sReceiveBufferIndex] = tByte]
            /\ sReceiveBufferIndex' = (sReceiveBufferIndex + 1) % 256
            /\ UNCHANGED sReceivedEventType
    /\ UNCHANGED <<sReceiveBufferOutOfSync, slotVars, logVars>>

\* a sync token in the place of the length byte is taken as a delimiter
ISR_Header_SyncInLength ==
    /\ ~sReceiveBufferOutOfSync
    /\ sReceivedEventType = EVENT_TAG_NO_EVENT
    /\ IF sReceiveBufferIndex = 1
       THEN /\ sReceivedEventType' = tByte
            /\ sReceiveBufferIndex' = 0
            /\ UNCHANGED sReceiveBuffer
       ELSE IF tByte = SYNC_TOKEN
       THEN UNCHANGED <<sReceiveBuffer, sReceiveBufferIndex,
                        sReceivedEventType>>
       ELSE /\ sReceiveBufferIndex \in BufIdx
            /\ sReceiveBuffer' =
                   [sReceiveBuffer EXCEPT ![sReceiveBufferIndex] = tByte]
            /\ sReceiveBufferIndex' = (sReceiveBufferIndex + 1) % 256
            /\ UNCHANGED sReceivedEventType
    /\ UNCHANGED <<sReceiveBufferOutOfSync, slotVars, logVars>>

\* BlueSerial.cpp:282-290
ISR_Header ==
    /\ ~sReceiveBufferOutOfSync
    /\ sReceivedEventType = EVENT_TAG_NO_EVENT
    /\ IF sReceiveBufferIndex = 1
       THEN /\ sReceivedEventType' = tByte
            /\ sReceiveBufferIndex' = 0
            /\ UNCHANGED sReceiveBuffer
       ELSE /\ sReceiveBufferIndex \in BufIdx
            /\ sReceiveBuffer' =
                   [sReceiveBuffer EXCEPT ![sReceiveBufferIndex] = tByte]
            /\ sReceiveBufferIndex' = (sReceiveBufferIndex + 1) % 256
            /\ UNCHANGED sReceivedEventType
    /\ UNCHANGED <<sReceiveBufferOutOfSync, slotVars, logVars>>

\* every payload byte is stored at the start of the buffer
ISR_Store_AtStart ==
    /\ ~sReceiveBufferOutOfSync
    /\ sReceivedEventType # EVENT_TAG_NO_EVENT
    /\ sReceiveBufferIndex # tDataSize(sReceivedEventType)
    /\ sReceiveBufferIndex \in BufIdx
    /\ sReceiveBuffer' = [sReceiveBuffer EXCEPT ![0] = tByte]
    /\ sReceiveBufferIndex' = (sReceiveBufferIndex + 1) % 256
    /\ UNCHANGED <<sReceiveBufferOutOfSync, sReceivedEventType, slotVars,
                   logVars>>

\* BlueSerial.cpp:327-330
ISR_Store ==
    /\ ~sReceiveBufferOutOfSync
    /\ sReceivedEventType # EVENT_TAG_NO_EVENT
    /\ sReceiveBufferIndex # tDataSize(sReceivedEventType)
    /\ sReceiveBufferIndex \in BufIdx
    /\ sReceiveBuffer' = [sReceiveBuffer EXCEPT ![sReceiveBufferIndex] = tByte]
    /\ sReceiveBufferIndex' = (sReceiveBufferIndex + 1) % 256
    /\ UNCHANGED <<sReceiveBufferOutOfSync, sReceivedEventType, slotVars,
                   logVars>>

\* the frame is dropped but the decoder does not wait for a sync token
ISR_Mismatch_NoOutOfSync ==
    /\ ~sReceiveBufferOutOfSync
    /\ sReceivedEventType # EVENT_TAG_NO_EVENT
    /\ sReceiveBufferIndex = tDataSize(sReceivedEventType)
    /\ tByte # SYNC_TOKEN
    /\ sReceiveBufferIndex' = 0
    /\ sReceivedEventType' = EVENT_TAG_NO_EVENT
    /\ UNCHANGED <<sReceiveBuffer, sReceiveBufferOutOfSync, slotVars, logVars>>

\* the index is not reset when the trailing byte is wrong
ISR_Mismatch_KeepIndex ==
    /\ ~sReceiveBufferOutOfSync
    /\ sReceivedEventType # EVENT_TAG_NO_EVENT
    /\ sReceiveBufferIndex = tDataSize(sReceivedEventType)
    /\ tByte # SYNC_TOKEN
    /\ sReceiveBufferOutOfSync' = TRUE
    /\ UNCHANGED <<sReceiveBuffer, sReceiveBufferIndex, sReceivedEventType,
                   slotVars, logVars>>

\* BlueSerial.cpp:322-326
ISR_Mismatch ==
    /\ ~sReceiveBufferOutOfSync
    /\ sReceivedEventType # EVENT_TAG_NO_EVENT
    /\ sReceiveBufferIndex = tDataSize(sReceivedEventType)
    /\ tByte # SYNC_TOKEN
    /\ sReceiveBufferOutOfSync' = TRUE
    /\ sReceiveBufferIndex' = 0
    /\ UNCHANGED <<sReceiveBuffer, sReceivedEventType, slotVars, logVars>>

\* BlueSerial.cpp:302-321; aCopyFirst: the slot is written (312-314) before
\* handleEvent is called with it (318-321), as the source has it
CompleteFrame(aCopyFirst) ==
    /\ ~sReceiveBufferOutOfSync
    /\ sReceivedEventType # EVENT_TAG_NO_EVENT
    /\ sReceiveBufferIndex = tDataSize(sReceivedEventType)
    /\ tByte = SYNC_TOKEN
    /\ sReceiveBufferIndex' = 0
    /\ sReceivedEventType' = EVENT_TAG_NO_EVENT
    /\ LET down == UseDownSlot(sReceivedEventType)
           old == IF down THEN remoteTouchDownEvent ELSE remoteTouchEvent
           ev == [EventType |-> sReceivedEventType,
                  ByteArray |-> memcpy(old.ByteArray, sReceiveBuffer,
                                       tDataSize(sReceivedEventType))]
           given == IF aCopyFirst THEN ev
                    ELSE [ev EXCEPT !.ByteArray = old.ByteArray]
           after == IF allowTouchInterrupts THEN Cleared(ev) ELSE ev
       IN  /\ IF down
              THEN /\ remoteTouchDownEvent' = after
                   /\ UNCHANGED remoteTouchEvent
              ELSE /\ remoteTouchEvent' = after
                   /\ UNCHANGED remoteTouchDownEvent
           /\ IF allowTouchInterrupts
              THEN /\ isrDispatch' =
                          Append(isrDispatch,
                                 HandleEventCall(given, IF down THEN "down"
                                                        ELSE "general"))
                   /\ invoked' = invoked \o Invocations(given)
              ELSE UNCHANGED logVars
    /\ UNCHANGED <<sReceiveBuffer, sReceiveBufferOutOfSync>>

\* a pending event of the destination slot is kept, the new frame dropped
ISR_Complete_KeepPending ==
    LET down == UseDownSlot(sReceivedEventType)
        old == IF down THEN remoteTouchDownEvent ELSE remoteTouchEvent
    IN  IF old.EventType # EVENT_TAG_NO_EVENT
        THEN /\ ~sReceiveBufferOutOfSync
             /\ sReceivedEventType # EVENT_TAG_NO_EVENT
             /\ sReceiveBufferIndex = tDataSize(sReceivedEventType)
             /\ tByte = SYNC_TOKEN
             /\ sReceiveBufferIndex' = 0
             /\ sReceivedEventType' = EVENT_TAG_NO_EVENT
             /\ UNCHANGED <<sReceiveBuffer, sReceiveBufferOutOfSync,
                            slotVars, logVars>>
        ELSE CompleteFrame(TRUE)

\* a touch down that is still pending is kept, the new one dropped
ISR_Complete_KeepPendingDown ==
    IF /\ UseDownSlot(sReceivedEventType)
       /\ remoteTouchDownEvent.EventType # EVENT_TAG_NO_EVENT
    THEN /\ ~sReceiveBufferOutOfSync
         /\ sReceivedEventType # EVENT_TAG_NO_EVENT
         /\ sReceiveBufferIndex = tDataSize(sReceivedEventType)
         /\ tByte = SYNC_TOKEN
         /\ sReceiveBufferIndex' = 0
         /\ sReceivedEventType' = EVENT_TAG_NO_EVENT
         /\ UNCHANGED <<sReceiveBuffer, sReceiveBufferOutOfSync,
                        slotVars, logVars>>
    ELSE CompleteFrame(TRUE)

\* the captured tag is reset before it is written to the slot
ISR_Complete_ResetFirst ==
    /\ ~sReceiveBufferOutOfSync
    /\ sReceivedEventType # EVENT_TAG_NO_EVENT
    /\ sReceiveBufferIndex = tDataSize(sReceivedEventType)
    /\ tByte = SYNC_TOKEN
    /\ sReceiveBufferIndex' = 0
    /\ sReceivedEventType' = EVENT_TAG_NO_EVENT
    /\ LET down == UseDownSlot(sReceivedEventType)
           old == IF down THEN remoteTouchDownEvent ELSE remoteTouchEvent
           ev == [EventType |-> EVENT_TAG_NO_EVENT,
                  ByteArray |-> memcpy(old.ByteArray, sReceiveBuffer,
                                       tDataSize(sReceivedEventType))]
       IN  /\ IF down
              THEN /\ remoteTouchDownEvent' = ev
                   /\ UNCHANGED remoteTouchEvent
              ELSE /\ remoteTouchEvent' = ev
                   /\ UNCHANGED remoteTouchDownEvent
           /\ IF allowTouchInterrupts
              THEN /\ isrDispatch' =
                          Append(isrDispatch,
                                 HandleEventCall(ev, IF down THEN "down"
                                                     ELSE "general"))
                   /\ invoked' = invoked \o Invocations(ev)
              ELSE UNCHANGED logVars
    /\ UNCHANGED <<sReceiveBuffer, sReceiveBufferOutOfSync>>

\* handleEvent is called at interrupt time but the event stays pending
ISR_Complete_DispatchAndKeep ==
    /\ ~sReceiveBufferOutOfSync
    /\ sReceivedEventType # EVENT_TAG_NO_EVENT
    /\ sReceiveBufferIndex = tDataSize(sReceivedEventType)
    /\ tByte = SYNC_TOKEN
    /\ sReceiveBufferIndex' = 0
    /\ sReceivedEventType' = EVENT_TAG_NO_EVENT
    /\ LET down == UseDownSlot(sReceivedEventType)
           old == IF down THEN remoteTouchDownEvent ELSE remoteTouchEvent
           ev == [EventType |-> sReceivedEventType,
                  ByteArray |-> memcpy(old.ByteArray, sReceiveBuffer,
                                       tDataSize(sReceivedEventType))]
       IN  /\ IF down
              THEN /\ remoteTouchDownEvent' = ev
                   /\ UNCHANGED remoteTouchEvent
              ELSE /\ remoteTouchEvent' = ev
                   /\ UNCHANGED remoteTouchDownEvent
           /\ IF allowTouchInterrupts
              THEN /\ isrDispatch' =
                          Append(isrDispatch,
                                 HandleEventCall(ev, IF down THEN "down"
                                                     ELSE "general"))
                   /\ invoked' = invoked \o Invocations(ev)
              ELSE UNCHANGED logVars
    /\ UNCHANGED <<sReceiveBuffer, sReceiveBufferOutOfSync>>

\* handleEvent is called whether or not allowTouchInterrupts is set
ISR_Complete_DispatchAlways ==
    /\ ~sReceiveBufferOutOfSync
    /\ sReceivedEventType # EVENT_TAG_NO_EVENT
    /\ sReceiveBufferIndex = tDataSize(sReceivedEventType)
    /\ tByte = SYNC_TOKEN
    /\ sReceiveBufferIndex' = 0
    /\ sReceivedEventType' = EVENT_TAG_NO_EVENT
    /\ LET down == UseDownSlot(sReceivedEventType)
           old == IF down THEN remoteTouchDownEvent ELSE remoteTouchEvent
           ev == [EventType |-> sReceivedEventType,
                  ByteArray |-> memcpy(old.ByteArray, sReceiveBuffer,
                                       tDataSize(sReceivedEventType))]
       IN  /\ IF down
              THEN /\ remoteTouchDownEvent' = Cleared(ev)
                   /\ UNCHANGED remoteTouchEvent
              ELSE /\ remoteTouchEvent' = Cleared(ev)
                   /\ UNCHANGED remoteTouchDownEvent
           /\ isrDispatch' =
                  Append(isrDispatch,
                         HandleEventCall(ev, IF down THEN "down"
                                             ELSE "general"))
           /\ invoked' = invoked \o Invocations(ev)
    /\ UNCHANGED <<sReceiveBuffer, sReceiveBufferOutOfSync>>

ISR_Complete_DispatchBeforeCopy == CompleteFrame(FALSE)

ISR_Complete == CompleteFrame(TRUE)

USART_RX_vect ==
    /\ pos < Len(stream)
    /\ \/ ISR_OutOfSync
       \/ ISR_Header
       \/ ISR_Store
       \/ ISR_Mismatch
       \/ ISR_Complete
    /\ Delivered

\* BlueSerial.cpp:270: the application switches interrupt-time dispatch
SetAllowTouchInterrupts ==
    /\ allowTouchInterrupts' = ~allowTouchInterrupts
    /\ UNCHANGED <<rxVars, slotVars, srcVars, regVars, logVars, mainVars, chartVars,
                   txVars>>

(***************************************************************************)
(* The application side of the dispatcher (modelled from the               *)
(* specification, sections 4.3, 4.4 and 6)                                 *)
(***************************************************************************)
RegHandles == {3, 4}
ButtonCallbackIds == {"cbA", "cbB"}
SliderCallbackIds == {"cbS"}
SliderHandles == {3}

\* handlers are bound when the widgets are created, which is before the host
\* reports events of them
SetupPhase == pos = 0

Bind(aRegistry, aHandle, aCallback) ==
    [h \in DOMAIN aRegistry \cup {aHandle} |->
        IF h = aHandle THEN aCallback ELSE aRegistry[h]]

registerButtonCallback ==
    /\ SetupPhase
    /\ \E h \in RegHandles, cb \in ButtonCallbackIds :
           /\ Resolve(buttonCallbacks, h) # cb
           /\ buttonCallbacks' = Bind(buttonCallbacks, h, cb)
    /\ UNCHANGED <<rxVars, allowTouchInterrupts, slotVars, srcVars,
                   sliderCallbacks, basicTouchHandler, logVars, mainVars, chartVars,
                   txVars>>

registerSliderCallback ==
    /\ SetupPhase
    /\ \E h \in SliderHandles, cb \in SliderCallbackIds :
           /\ Resolve(sliderCallbacks, h) # cb
           /\ sliderCallbacks' = Bind(sliderCallbacks, h, cb)
    /\ UNCHANGED <<rxVars, allowTouchInterrupts, slotVars, srcVars,
                   buttonCallbacks, basicTouchHandler, logVars, mainVars, chartVars,
                   txVars>>

registerBasicTouchHandler ==
    /\ SetupPhase
    /\ ~basicTouchHandler
    /\ basicTouchHandler' = TRUE
    /\ UNCHANGED <<rxVars, allowTouchInterrupts, slotVars, srcVars,
                   buttonCallbacks, sliderCallbacks, logVars, mainVars, chartVars,
                   txVars>>

\* deferred dispatch of one of the two slots from the main loop
DispatchGeneralSlot ==
    /\ invoked' = invoked \o Invocations(remoteTouchEvent)
    /\ remoteTouchEvent' = Cleared(remoteTouchEvent)
    /\ UNCHANGED <<rxVars, allowTouchInterrupts, remoteTouchDownEvent,
                   srcVars, regVars, isrDispatch, mainVars, chartVars,
                   txVars>>

DispatchDownSlot ==
    /\ invoked' = invoked \o Invocations(remoteTouchDownEvent)
    /\ remoteTouchDownEvent' = Cleared(remoteTouchDownEvent)
    /\ UNCHANGED <<rxVars, allowTouchInterrupts, remoteTouchEvent,
                   srcVars, regVars, isrDispatch, mainVars, chartVars,
                   txVars>>

pollAndDispatchPendingEvent ==
    \/ DispatchGeneralSlot
    \/ DispatchDownSlot

\* The same dispatch of a pending event in the three steps the main loop
\* takes with interrupts enabled: read EventType, read the payload, clear
\* EventType (sections 4.3 and 5)
SlotNames == {"general", "down"}
Slot(aName) == IF aName = "down" THEN remoteTouchDownEvent ELSE remoteTouchEvent

MainReadEventType ==
    /\ mainPc = "idle"
    /\ \E n \in SlotNames :
          /\ Slot(n).EventType # EVENT_TAG_NO_EVENT
          /\ mainEvent' = [mainEvent EXCEPT !.slot = n,
                                            !.EventType = Slot(n).EventType]
    /\ mainPc' = "type"
    /\ UNCHANGED <<rxVars, allowTouchInterrupts, slotVars, srcVars, regVars,
                   logVars, handled, txVars, chartVars>>

MainReadPayload ==
    /\ mainPc = "type"
    /\ mainEvent' = [mainEvent EXCEPT !.ByteArray = Slot(mainEvent.slot).ByteArray]
    /\ mainPc' = "payload"
    /\ UNCHANGED <<rxVars, allowTouchInterrupts, slotVars, srcVars, regVars,
                   logVars, handled, txVars, chartVars>>

MainClearEventType ==
    /\ mainPc = "payload"
    /\ IF mainEvent.slot = "down"
       THEN /\ remoteTouchDownEvent' = Cleared(remoteTouchDownEvent)
            /\ UNCHANGED remoteTouchEvent
       ELSE /\ remoteTouchEvent' = Cleared(remoteTouchEvent)
            /\ UNCHANGED remoteTouchDownEvent
    /\ handled' = Append(handled, [EventType |-> mainEvent.EventType,
                                   ByteArray |-> mainEvent.ByteArray])
    /\ invoked' = invoked \o Invocations(mainEvent)
    /\ mainPc' = "idle"
    /\ UNCHANGED <<rxVars, allowTouchInterrupts, srcVars, regVars,
                   isrDispatch, mainEvent, txVars, chartVars>>

(***************************************************************************)
(* The command encoder, BlueSerial.cpp:135-260                             *)
(***************************************************************************)
\* number-of-arguments values tried, and the samples the arguments are
\* taken from
MaxArgsTried == 14
NegativeArgsTried == 2
ArgRotations == 1
MaxDataLength == 2

NumbersOfArgs == (0 - NegativeArgsTried)..MaxArgsTried
\* an argument count near the lower end of the 16 bit int of the AVR, for
\* which aNumberOfArgs * 2 + 4 leaves the range of int and wraps
WrappingNumbersOfArgs == {-32754}
\* what the stack holds where the encoder has written nothing: one of
\* these patterns, byte i being (pattern + i) % 256
StackPatterns == {0, 160}
\* values of an int argument (int is 16 bit wide on the AVR)
ArgValues == <<-1, 0, 1, 258, 32767, -32768, 165>>
Arg(rot, i) == ArgValues[((rot + i) % Len(ArgValues)) + 1]
\* data lengths as the uint16_t the caller holds
DataLengths == 0..MaxDataLength \cup {32768, 65535}
DataSeeds == {16, 250}
\* byte i of the caller's data buffer
DataBuffer(seed, i) == (seed + i) % 256
SampleTags == {0, 127, 128, 255}

RECURSIVE BitOr(_, _)
BitOr(a, b) ==
    IF a = 0 THEN b
    ELSE IF b = 0 THEN a
    ELSE (IF a % 2 = 1 \/ b % 2 = 1 THEN 1 ELSE 0)
         + 2 * BitOr(a \div 2, b \div 2)

\* stores into uint16_t and int16_t
ToUint16_Low8(v) == v % 256

ToUint16(v) == v % 65536
ToInt16(v) == Int16(v % 65536)

\* BlueSerial.cpp:198: aFunctionTag << 8 | SYNC_TOKEN, stored as uint16_t
TagWord(aTag) == ToUint16(BitOr(aTag * 256, SYNC_TOKEN))

\* BlueSerial.cpp:191: the argument cap
TooManyArgs_OffByOne(aNumberOfArgs) == aNumberOfArgs > MAX_NUMBER_OF_ARGS + 1

TooManyArgs(aNumberOfArgs) == aNumberOfArgs > MAX_NUMBER_OF_ARGS

\* BlueSerial.cpp:172, 195, 219, 245: elements of the local tParamBuffer
ParamBufferWords(aFn) ==
    IF aFn = "sendUSARTArgs" THEN MAX_NUMBER_OF_ARGS + 2
    ELSE IF aFn = "sendUSARTArgsAndByteBuffer" THEN MAX_NUMBER_OF_ARGS + 4
    ELSE MAX_NUMBER_OF_ARGS

\* the length word holds the number of arguments, not of bytes
ArgWords_CountInWords(aNumberOfArgs, rot) ==
    <<ToUint16(aNumberOfArgs)>>
    \o [i \in 1..(IF aNumberOfArgs > 0 THEN aNumberOfArgs ELSE 0) |->
            ToUint16(Arg(rot, i - 1))]

\* BlueSerial.cpp:201-204: the length word and the va_arg loop
ArgWords(aNumberOfArgs, rot) ==
    <<ToUint16(aNumberOfArgs * 2)>>
    \o [i \in 1..(IF aNumberOfArgs > 0 THEN aNumberOfArgs ELSE 0) |->
            ToUint16(Arg(rot, i - 1))]

\* BlueSerial.cpp:230-232: the data field header
DataHeader(aLength) == <<TagWord(DATAFIELD_TAG_BYTE), ToUint16(aLength)>>

\* byte i of the parameter buffer (the AVR stores the low byte first); a
\* byte the encoder has not written is whatever the stack holds there
ParamByte(i) ==
    IF (i \div 2) + 1 \in DOMAIN tParamBuffer
    THEN LET w == tParamBuffer[(i \div 2) + 1]
         IN  IF i % 2 = 0 THEN w % 256 ELSE w \div 256
    ELSE (txCall.stack + i) % 256

\* BlueSerial.cpp:138, 148: which loop of sendUSARTBufferNoSizeCheck runs
TxPhase_DataFirst(aParamLength, aDataLength) ==
    IF aDataLength > 0 THEN "data"
    ELSE IF aParamLength > 0 THEN "param" ELSE "done"

TxPhase(aParamLength, aDataLength) ==
    IF aParamLength > 0 THEN "param"
    ELSE IF aDataLength > 0 THEN "data" ELSE "done"

RxIdle == UNCHANGED <<rxVars, allowTouchInterrupts, slotVars, srcVars,
                      regVars, logVars, mainVars, chartVars>>

\* BlueSerial.cpp:135-136: entry of sendUSARTBufferNoSizeCheck
sendUSARTBufferNoSizeCheck(aWords, aParamLength, aDataLength) ==
    /\ tParamBuffer' = aWords
    /\ aParameterBufferPointer' = 0
    /\ aParameterBufferLength' = aParamLength
    /\ aDataBufferPointer' = 0
    /\ aDataBufferLength' = ToInt16(aDataLength)
    /\ txPc' = TxPhase(aParamLength, ToInt16(aDataLength))
    /\ wire' = <<>>
    /\ UNCHANGED UDRE0

\* an early return of an encoder: nothing is handed to the transmitter
Dropped ==
    /\ txPc' = "done"
    /\ wire' = <<>>
    /\ UNCHANGED <<tParamBuffer, aParameterBufferPointer,
                   aParameterBufferLength, aDataBufferPointer,
                   aDataBufferLength, UDRE0>>

Call(aFn, aTag, aNumberOfArgs, rot, aLength, seed) ==
    [fn |-> aFn, tag |-> aTag, n |-> aNumberOfArgs, rot |-> rot,
     len |-> aLength, seed |-> seed, stack |-> 0]

\* the argument counts a call is tried with
NumbersOfArgsFor(aTag) ==
    IF aTag \in SampleTags THEN NumbersOfArgs \cup WrappingNumbersOfArgs
    ELSE NumbersOfArgs

\* the stack patterns that can show in a call with this argument count
StackPatternsFor(aNumberOfArgs) ==
    IF aNumberOfArgs \in WrappingNumbersOfArgs THEN StackPatterns ELSE {0}

\* BlueSerial.cpp:171-183
sendUSART5Args ==
    /\ txPc = "idle"
    /\ \E aFunctionTag \in SampleTags, rot \in 0..ArgRotations :
          /\ txCall' = Call("sendUSART5Args", aFunctionTag, 5, rot, 0, 0)
          /\ sendUSARTBufferNoSizeCheck(
                 <<TagWord(aFunctionTag), 10>>
                 \o [i \in 1..5 |-> ToUint16(Arg(rot, i - 1))], 14, 0)
    /\ RxIdle

\* BlueSerial.cpp:190-207
sendUSARTArgs ==
    /\ txPc = "idle"
    /\ \E aFunctionTag \in Byte, rot \in 0..ArgRotations :
       \E aNumberOfArgs \in NumbersOfArgsFor(aFunctionTag) :
       \E stack \in StackPatternsFor(aNumberOfArgs) :
          /\ txCall' = [Call("sendUSARTArgs", aFunctionTag, aNumberOfArgs,
                             rot, 0, 0) EXCEPT !.stack = stack]
          /\ IF TooManyArgs(aNumberOfArgs)
             THEN Dropped
             ELSE sendUSARTBufferNoSizeCheck(
                      <<TagWord(aFunctionTag)>>
                      \o ArgWords(aNumberOfArgs, rot),
                      ToInt16(aNumberOfArgs * 2 + 4), 0)
    /\ RxIdle

\* BlueSerial.cpp:214-237
sendUSARTArgsAndByteBuffer ==
    /\ txPc = "idle"
    /\ \E aFunctionTag \in SampleTags, rot \in 0..ArgRotations,
          tLength \in DataLengths, seed \in DataSeeds :
       \E aNumberOfArgs \in NumbersOfArgsFor(aFunctionTag) :
       \E stack \in StackPatternsFor(aNumberOfArgs) :
          /\ txCall' = [Call("sendUSARTArgsAndByteBuffer", aFunctionTag,
                             aNumberOfArgs, rot, tLength, seed)
                            EXCEPT !.stack = stack]
          /\ IF TooManyArgs(aNumberOfArgs)
             THEN Dropped
             ELSE sendUSARTBufferNoSizeCheck(
                      <<TagWord(aFunctionTag)>>
                      \o ArgWords(aNumberOfArgs, rot)
                      \o DataHeader(tLength),
                      ToInt16(aNumberOfArgs * 2 + 8), tLength)
    /\ RxIdle

\* BlueSerial.cpp:242-260
sendUSART5ArgsAndByteBuffer ==
    /\ txPc = "idle"
    /\ \E aFunctionTag \in SampleTags, rot \in 0..ArgRotations,
          aBufferLength \in DataLengths, seed \in DataSeeds :
          /\ txCall' = Call("sendUSART5ArgsAndByteBuffer", aFunctionTag, 5,
                            rot, aBufferLength, seed)
          /\ sendUSARTBufferNoSizeCheck(
                 <<TagWord(aFunctionTag), 10>>
                 \o [i \in 1..5 |-> ToUint16(Arg(rot, i - 1))]
                 \o DataHeader(aBufferLength), 18, aBufferLength)
    /\ RxIdle

\* BlueSerial.cpp:138-147: one pass of the parameter loop
TxParameterByte ==
    /\ txPc = "param"
    /\ aParameterBufferLength > 0
    /\ UDRE0
    /\ wire' = Append(wire, ParamByte(aParameterBufferPointer))
    /\ UDRE0' = FALSE
    /\ aParameterBufferPointer' = aParameterBufferPointer + 1
    /\ aParameterBufferLength' = aParameterBufferLength - 1
    /\ txPc' = TxPhase(aParameterBufferLength - 1, aDataBufferLength)
    /\ UNCHANGED <<txCall, tParamBuffer, aDataBufferPointer,
                   aDataBufferLength>>
    /\ RxIdle

\* BlueSerial.cpp:148-157: one pass of the data loop
TxDataByte ==
    /\ txPc = "data"
    /\ aDataBufferLength > 0
    /\ UDRE0
    /\ wire' = Append(wire, DataBuffer(txCall.seed, aDataBufferPointer))
    /\ UDRE0' = FALSE
    /\ aDataBufferPointer' = aDataBufferPointer + 1
    /\ aDataBufferLength' = aDataBufferLength - 1
    /\ txPc' = TxPhase(aParameterBufferLength, aDataBufferLength - 1)
    /\ UNCHANGED <<txCall, tParamBuffer, aParameterBufferPointer,
                   aParameterBufferLength>>
    /\ RxIdle

\* the data register never reports empty again
USART_DataRegisterEmpty_Never ==
    /\ ~UDRE0
    /\ UDRE0' = FALSE
    /\ UNCHANGED <<txCall, txPc, tParamBuffer, aParameterBufferPointer,
                   aParameterBufferLength, aDataBufferPointer,
                   aDataBufferLength, wire>>
    /\ RxIdle

\* the USART has moved the byte out of its data register
USART_DataRegisterEmpty ==
    /\ ~UDRE0
    /\ UDRE0' = TRUE
    /\ UNCHANGED <<txCall, txPc, tParamBuffer, aParameterBufferPointer,
                   aParameterBufferLength, aDataBufferPointer,
                   aDataBufferLength, wire>>
    /\ RxIdle

NoCall == Call("none", 0, 0, 0, 0, 0)

\* the encoder returns to its caller
TxReturn ==
    /\ txPc = "done"
    /\ txPc' = "idle"
    /\ txCall' = NoCall
    /\ tParamBuffer' = <<>>
    /\ aParameterBufferPointer' = 0
    /\ aParameterBufferLength' = 0
    /\ aDataBufferPointer' = 0
    /\ aDataBufferLength' = 0
    /\ wire' = <<>>
    /\ UNCHANGED UDRE0
    /\ RxIdle

\* one stream only is fed
SingleStream ==
    /\ pass = 0
    /\ replay = <<>>
    /\ trace = <<>>

\* the main loop is not taking an event
MainIdle ==
    /\ mainPc = "idle"
    /\ mainEvent = [slot |-> "none", EventType |-> EVENT_TAG_NO_EVENT,
                    ByteArray |-> [i \in BufIdx |-> 0]]
    /\ handled = <<>>

TxInit ==
    /\ txCall = NoCall
    /\ txPc = "idle"
    /\ tParamBuffer = <<>>
    /\ aParameterBufferPointer = 0
    /\ aParameterBufferLength = 0
    /\ aDataBufferPointer = 0
    /\ aDataBufferLength = 0
    /\ UDRE0 = TRUE
    /\ wire = <<>>

\* no Chart function has been called
NoChartCall == [fn |-> "none"]

\* a Chart object that is not used
ChartInit ==
    /\ mAxesSize = 0
    /\ mPositionX = 0
    /\ mPositionY = 0
    /\ mWidthX = 0
    /\ mHeightY = 0
    /\ mGridXSpacing = 0
    /\ mXScaleFactor = 0
    /\ mXLabelStartValue = 0
    /\ mXLabelBaseIncrementValue = 0
    /\ mYLabelStartValue = 0
    /\ mYLabelIncrementValue = 0
    /\ chartCall = NoChartCall

(***************************************************************************)
(* Initial state: the globals as initialised, after initSimpleSerial       *)
(* (BlueSerial.cpp:100-103, 128-130, 267, 270)                             *)
(***************************************************************************)
Init ==
    /\ sReceiveBuffer = [i \in BufIdx |-> 0]
    /\ sReceiveBufferIndex = 0
    /\ sReceiveBufferOutOfSync = FALSE
    /\ sReceivedEventType = EVENT_TAG_NO_EVENT
    /\ allowTouchInterrupts = FALSE
    /\ remoteTouchEvent = EmptyEvent
    /\ remoteTouchDownEvent = EmptyEvent
    /\ scenario \in Scenarios
    /\ stream = StreamBytes(scenario)
    /\ ends = ItemEnds(scenario)
    /\ pos = 0
    /\ idleAt = {0}
    /\ oosAt = {}
    /\ serialAvailable = 0
    /\ SingleStream
    /\ buttonCallbacks = NoCallbacks
    /\ sliderCallbacks = NoCallbacks
    /\ basicTouchHandler = FALSE
    /\ isrDispatch = <<>>
    /\ invoked = <<>>
    /\ MainIdle
    /\ TxInit
    /\ ChartInit

Next ==
    \/ USART_RX_vect
    \/ SetAllowTouchInterrupts

Spec == Init /\ [][Next]_vars

(***************************************************************************)
(* The dispatcher with registrations and both dispatch modes, fed with     *)
(* well-formed frames                                                      *)
(***************************************************************************)
MaxDispatchItems == 2

DispatchFrameKinds ==
    { [len |-> 7,  tag |-> EVENT_TAG_TOUCH_ACTION_DOWN, p |-> 1],
      [len |-> 15, tag |-> EVENT_TAG_BUTTON_CALLBACK_ACTION, p |-> 1],
      [len |-> 15, tag |-> EVENT_TAG_BUTTON_CALLBACK_ACTION, p |-> 2],
      [len |-> 15, tag |-> EVENT_TAG_SLIDER_CALLBACK_ACTION, p |-> 3] }

DispatchItems ==
    [kind : {"frame"}, f : DispatchFrameKinds, trailer : {SYNC_TOKEN}, b : {0}]

DispatchScenarios ==
    UNION { [1..n -> DispatchItems] : n \in 1..MaxDispatchItems }

InitDispatch ==
    /\ sReceiveBuffer = [i \in BufIdx |-> 0]
    /\ sReceiveBufferIndex = 0
    /\ sReceiveBufferOutOfSync = FALSE
    /\ sReceivedEventType = EVENT_TAG_NO_EVENT
    /\ allowTouchInterrupts = FALSE
    /\ remoteTouchEvent = EmptyEvent
    /\ remoteTouchDownEvent = EmptyEvent
    /\ scenario \in DispatchScenarios
    /\ stream = StreamBytes(scenario)
    /\ ends = ItemEnds(scenario)
    /\ pos = 0
    /\ idleAt = {0}
    /\ oosAt = {}
    /\ serialAvailable = 0
    /\ SingleStream
    /\ buttonCallbacks = NoCallbacks
    /\ sliderCallbacks = NoCallbacks
    /\ basicTouchHandler = FALSE
    /\ isrDispatch = <<>>
    /\ invoked = <<>>
    /\ MainIdle
    /\ TxInit
    /\ ChartInit

NextDispatch ==
    \/ USART_RX_vect
    \/ SetAllowTouchInterrupts
    \/ registerButtonCallback
    \/ registerSliderCallback
    \/ registerBasicTouchHandler
    \/ pollAndDispatchPendingEvent

SpecDispatch == InitDispatch /\ [][NextDispatch]_vars

(***************************************************************************)
(* The encoder on its own: every send function, byte by byte               *)
(***************************************************************************)
InitSend ==
    /\ sReceiveBuffer = [i \in BufIdx |-> 0]
    /\ sReceiveBufferIndex = 0
    /\ sReceiveBufferOutOfSync = FALSE
    /\ sReceivedEventType = EVENT_TAG_NO_EVENT
    /\ allowTouchInterrupts = FALSE
    /\ remoteTouchEvent = EmptyEvent
    /\ remoteTouchDownEvent = EmptyEvent
    /\ scenario = <<>>
    /\ stream = <<>>
    /\ ends = <<>>
    /\ pos = 0
    /\ idleAt = {0}
    /\ oosAt = {}
    /\ serialAvailable = 0
    /\ SingleStream
    /\ buttonCallbacks = NoCallbacks
    /\ sliderCallbacks = NoCallbacks
    /\ basicTouchHandler = FALSE
    /\ isrDispatch = <<>>
    /\ invoked = <<>>
    /\ MainIdle
    /\ TxInit
    /\ ChartInit

NextSend ==
    \/ sendUSART5Args
    \/ sendUSARTArgs
    \/ sendUSARTArgsAndByteBuffer
    \/ sendUSART5ArgsAndByteBuffer
    \/ TxParameterByte
    \/ TxDataByte
    \/ USART_DataRegisterEmpty
    \/ TxReturn

SpecSend == InitSend /\ [][NextSend]_vars

\* the same calls, with a processor that keeps executing the loops of
\* sendUSARTBufferNoSizeCheck and a USART that moves every byte written to
\* its data register out again
SpecSendFair ==
    /\ InitSend
    /\ [][NextSend]_vars
    /\ WF_vars(TxParameterByte)
    /\ WF_vars(TxDataByte)
    /\ WF_vars(USART_DataRegisterEmpty)

(***************************************************************************)
(* Two streams that differ in their length bytes only, fed one after the   *)
(* other to a decoder that starts from the same initial state, with        *)
(* interrupt-time dispatch either on or off for both                       *)
(***************************************************************************)
MaxReplayItems == 2

ReplayFrameKinds ==
    { f \in FrameKinds :
        \/ f.tag # EVENT_TAG_SLIDER_CALLBACK_ACTION
        \/ f.len = SYNC_TOKEN }

ReplayItems ==
    [kind : {"frame"}, f : ReplayFrameKinds, trailer : {SYNC_TOKEN}, b : {0}]
    \cup [kind : {"frame"},
          f : {k \in ReplayFrameKinds :
                  k.len = 7 /\ k.tag = EVENT_TAG_TOUCH_ACTION_MOVE},
          trailer : {BadTrailer}, b : {0}]

ReplayScenarios == UNION { [1..n -> ReplayItems] : n \in 1..MaxReplayItems }

\* values of a length byte in the second stream
LengthBytes == {SYNC_TOKEN, 0}

WithLengths(its, lens) ==
    [k \in DOMAIN its |-> [its[k] EXCEPT !.f.len = lens[k]]]

InitReplay ==
    /\ sReceiveBuffer = [i \in BufIdx |-> 0]
    /\ sReceiveBufferIndex = 0
    /\ sReceiveBufferOutOfSync = FALSE
    /\ sReceivedEventType = EVENT_TAG_NO_EVENT
    /\ allowTouchInterrupts \in BOOLEAN
    /\ remoteTouchEvent = EmptyEvent
    /\ remoteTouchDownEvent = EmptyEvent
    /\ scenario \in ReplayScenarios
    /\ replay \in { WithLengths(scenario, lens) :
                      lens \in [1..Len(scenario) -> LengthBytes] }
    /\ stream = StreamBytes(scenario)
    /\ ends = ItemEnds(scenario)
    /\ pos = 0
    /\ idleAt = {0}
    /\ oosAt = {}
    /\ serialAvailable = 0
    /\ pass = 1
    /\ trace = <<>>
    /\ buttonCallbacks = (3 :> "cbA")
    /\ sliderCallbacks = NoCallbacks
    /\ basicTouchHandler = TRUE
    /\ isrDispatch = <<>>
    /\ invoked = <<>>
    /\ MainIdle
    /\ TxInit
    /\ ChartInit

\* the first stream is through: the decoder is put back into its initial
\* state and the second stream is fed
Replay ==
    /\ pass = 1
    /\ pos = Len(stream)
    /\ pass' = 2
    /\ scenario' = replay
    /\ replay' = scenario
    /\ stream' = StreamBytes(replay)
    /\ ends' = ItemEnds(replay)
    /\ pos' = 0
    /\ idleAt' = {0}
    /\ oosAt' = {}
    /\ sReceiveBuffer' = [i \in BufIdx |-> 0]
    /\ sReceiveBufferIndex' = 0
    /\ sReceiveBufferOutOfSync' = FALSE
    /\ sReceivedEventType' = EVENT_TAG_NO_EVENT
    /\ remoteTouchEvent' = EmptyEvent
    /\ remoteTouchDownEvent' = EmptyEvent
    /\ isrDispatch' = <<>>
    /\ invoked' = <<>>
    /\ UNCHANGED <<trace, serialAvailable, allowTouchInterrupts, regVars,
                   mainVars, chartVars, txVars>>

NextReplay ==
    \/ USART_RX_vect
    \/ Replay

SpecReplay == InitReplay /\ [][NextReplay]_vars

(***************************************************************************)
(* A call of a fixed-arity encoder, then the call of the variadic encoder  *)
(* with the same tag, the same five arguments and the same data buffer     *)
(***************************************************************************)
InitAgree ==
    /\ sReceiveBuffer = [i \in BufIdx |-> 0]
    /\ sReceiveBufferIndex = 0
    /\ sReceiveBufferOutOfSync = FALSE
    /\ sReceivedEventType = EVENT_TAG_NO_EVENT
    /\ allowTouchInterrupts = FALSE
    /\ remoteTouchEvent = EmptyEvent
    /\ remoteTouchDownEvent = EmptyEvent
    /\ scenario = <<>>
    /\ stream = <<>>
    /\ ends = <<>>
    /\ pos = 0
    /\ idleAt = {0}
    /\ oosAt = {}
    /\ serialAvailable = 0
    /\ pass = 1
    /\ replay = <<>>
    /\ trace = <<>>
    /\ buttonCallbacks = NoCallbacks
    /\ sliderCallbacks = NoCallbacks
    /\ basicTouchHandler = FALSE
    /\ isrDispatch = <<>>
    /\ invoked = <<>>
    /\ MainIdle
    /\ TxInit
    /\ ChartInit

\* the variadic encoder that stands for a fixed-arity one
VariadicOf(aFn) ==
    IF aFn = "sendUSART5Args" THEN "sendUSARTArgs"
    ELSE "sendUSARTArgsAndByteBuffer"

\* the first call returns: the bytes it has sent and its arguments are
\* kept, and the second call is to be made
TxReturnFirst ==
    /\ pass = 1
    /\ txPc = "done"
    /\ pass' = 2
    /\ replay' = <<txCall>>
    /\ trace' = wire
    /\ txPc' = "idle"
    /\ txCall' = NoCall
    /\ tParamBuffer' = <<>>
    /\ aParameterBufferPointer' = 0
    /\ aParameterBufferLength' = 0
    /\ aDataBufferPointer' = 0
    /\ aDataBufferLength' = 0
    /\ wire' = <<>>
    /\ UNCHANGED <<UDRE0, rxVars, allowTouchInterrupts, slotVars, scenario,
                   stream, ends, pos, idleAt, oosAt, serialAvailable,
                   regVars, logVars,
                   mainVars, chartVars>>

\* the call being made has the arguments of the first call, five of them
SameArguments ==
    /\ txCall'.fn = VariadicOf(replay[1].fn)
    /\ txCall'.n = 5
    /\ txCall'.tag = replay[1].tag
    /\ txCall'.rot = replay[1].rot
    /\ txCall'.len = replay[1].len
    /\ txCall'.seed = replay[1].seed

NextAgree ==
    \/ pass = 1 /\ sendUSART5Args
    \/ pass = 1 /\ sendUSART5ArgsAndByteBuffer
    \/ TxReturnFirst
    \/ pass = 2 /\ replay # <<>> /\ sendUSARTArgs /\ SameArguments
    \/ pass = 2 /\ replay # <<>> /\ sendUSARTArgsAndByteBuffer
          /\ SameArguments
    \/ TxParameterByte
    \/ TxDataByte
    \/ USART_DataRegisterEmpty

SpecAgree == InitAgree /\ [][NextAgree]_vars

(***************************************************************************)
(* Deferred dispatch with the receive interrupt enabled: the interrupt     *)
(* runs to completion between any two steps of the main loop               *)
(***************************************************************************)
MaxHandOverItems == 2

\* the frames of the dispatcher and a second touch down, at another place
HandOverFrameKinds ==
    DispatchFrameKinds
    \cup {[len |-> 7, tag |-> EVENT_TAG_TOUCH_ACTION_DOWN, p |-> 2]}

HandOverItems ==
    [kind : {"frame"}, f : HandOverFrameKinds, trailer : {SYNC_TOKEN}, b : {0}]

HandOverScenarios ==
    UNION { [1..n -> HandOverItems] : n \in 1..MaxHandOverItems }

InitHandOver ==
    /\ sReceiveBuffer = [i \in BufIdx |-> 0]
    /\ sReceiveBufferIndex = 0
    /\ sReceiveBufferOutOfSync = FALSE
    /\ sReceivedEventType = EVENT_TAG_NO_EVENT
    /\ allowTouchInterrupts = FALSE
    /\ remoteTouchEvent = EmptyEvent
    /\ remoteTouchDownEvent = EmptyEvent
    /\ scenario \in HandOverScenarios
    /\ stream = StreamBytes(scenario)
    /\ ends = ItemEnds(scenario)
    /\ pos = 0
    /\ idleAt = {0}
    /\ oosAt = {}
    /\ serialAvailable = 0
    /\ SingleStream
    /\ buttonCallbacks = (3 :> "cbA")
    /\ sliderCallbacks = NoCallbacks
    /\ basicTouchHandler = TRUE
    /\ isrDispatch = <<>>
    /\ invoked = <<>>
    /\ MainIdle
    /\ TxInit
    /\ ChartInit

NextHandOver ==
    \/ USART_RX_vect
    \/ MainReadEventType
    \/ MainReadPayload
    \/ MainClearEventType

SpecHandOver == InitHandOver /\ [][NextHandOver]_vars

(***************************************************************************)
(* The polled decoder serialEvent, BlueSerial.cpp:339-393 (the build       *)
(* without USE_SIMPLE_SERIAL), fed with the stream the receive interrupt   *)
(* was fed with before                                                     *)
(***************************************************************************)
MaxPolledItems == 2

PolledScenarios == UNION { [1..n -> Items] : n \in 1..MaxPolledItems }

InitPolled ==
    /\ sReceiveBuffer = [i \in BufIdx |-> 0]
    /\ sReceiveBufferIndex = 0
    /\ sReceiveBufferOutOfSync = FALSE
    /\ sReceivedEventType = EVENT_TAG_NO_EVENT
    /\ allowTouchInterrupts = TRUE
    /\ remoteTouchEvent = EmptyEvent
    /\ remoteTouchDownEvent = EmptyEvent
    /\ scenario \in PolledScenarios
    /\ replay = scenario
    /\ stream = StreamBytes(scenario)
    /\ ends = ItemEnds(scenario)
    /\ pos = 0
    /\ idleAt = {0}
    /\ oosAt = {}
    /\ serialAvailable = 0
    /\ pass = 1
    /\ trace = <<>>
    /\ buttonCallbacks = (3 :> "cbA")
    /\ sliderCallbacks = NoCallbacks
    /\ basicTouchHandler = TRUE
    /\ isrDispatch = <<>>
    /\ invoked = <<>>
    /\ MainIdle
    /\ TxInit
    /\ ChartInit

\* the serial port has received one more byte and keeps it for Serial.read
SerialReceives ==
    /\ pass = 2
    /\ pos + serialAvailable < Len(stream)
    /\ serialAvailable' = serialAvailable + 1
    /\ UNCHANGED <<rxVars, allowTouchInterrupts, slotVars, scenario, stream,
                   ends, pos, idleAt, oosAt, pass, replay, trace, regVars,
                   logVars, mainVars, chartVars, txVars>>

\* the payload is read without its trailing byte being there
EnoughBytes_WithoutTrailer(aBytesAvailable, aDataSize) ==
    aBytesAvailable >= aDataSize

\* BlueSerial.cpp:378: payload and sync token are there
EnoughBytes(aBytesAvailable, aDataSize) == aBytesAvailable > aDataSize

\* BlueSerial.cpp:341-350: the bytes the loop reads while OUT_OF_SYNC, up
\* to and including the first sync token
SkippedToSync ==
    LET syncs == {j \in 1..serialAvailable : stream[pos + j] = SYNC_TOKEN}
    IN  IF syncs = {} THEN serialAvailable
        ELSE CHOOSE j \in syncs : \A k \in syncs : j <= k

\* BlueSerial.cpp:339-393, one call
serialEvent ==
    /\ pass = 2
    /\ LET \* 341-350
           found == /\ sReceiveBufferOutOfSync
                    /\ \E j \in 1..serialAvailable :
                           stream[pos + j] = SYNC_TOKEN
           skipped == IF sReceiveBufferOutOfSync THEN SkippedToSync ELSE 0
           oos1 == sReceiveBufferOutOfSync /\ ~found
           type1 == IF found THEN EVENT_TAG_NO_EVENT
                    ELSE sReceivedEventType
           pos1 == pos + skipped
           \* 356
           tBytesAvailable == (serialAvailable - skipped) % 256
           \* 360-369
           header == ~oos1 /\ type1 = EVENT_TAG_NO_EVENT
                     /\ tBytesAvailable >= 2
           buf2 == IF header
                   THEN [sReceiveBuffer EXCEPT ![0] = stream[pos1 + 1],
                                               ![1] = stream[pos1 + 2]]
                   ELSE sReceiveBuffer
           type2 == IF header THEN stream[pos1 + 2] ELSE type1
           pos2 == IF header THEN pos1 + 2 ELSE pos1
           avail2 == IF header THEN tBytesAvailable - 2 ELSE tBytesAvailable
           \* 370-390
           tSize == tDataSize(type2)
           body == ~oos1 /\ type2 # EVENT_TAG_NO_EVENT
                   /\ EnoughBytes(avail2, tSize)
           buf3 == IF body
                   THEN [i \in BufIdx |->
                            IF i < tSize THEN stream[pos2 + 1 + i]
                            ELSE buf2[i]]
                   ELSE buf2
           \* Serial.read gives -1 when nothing is there
           trailer == IF avail2 > tSize THEN stream[pos2 + tSize + 1]
                      ELSE 0 - 1
           pos3 == IF body
                   THEN pos2 + tSize + (IF avail2 > tSize THEN 1 ELSE 0)
                   ELSE pos2
           complete == body /\ trailer = SYNC_TOKEN
           ev == [EventType |-> type2,
                  ByteArray |-> memcpy(remoteTouchEvent.ByteArray, buf3,
                                       tSize)]
       IN  /\ sReceiveBuffer' = buf3
           /\ pos' = pos3
           /\ serialAvailable' = serialAvailable - (pos3 - pos)
           /\ sReceiveBufferOutOfSync' = (oos1 \/ (body /\ ~complete))
           /\ sReceivedEventType' =
                  IF complete THEN EVENT_TAG_NO_EVENT ELSE type2
           /\ IF complete
              THEN /\ remoteTouchEvent' = Cleared(ev)
                   /\ isrDispatch' =
                          Append(isrDispatch,
                                 [slot |-> "general", type |-> ev.EventType,
                                  data |-> ev.ByteArray, at |-> pos3,
                                  index |-> sReceiveBufferIndex,
                                  eventType |-> EVENT_TAG_NO_EVENT])
                   /\ invoked' = invoked \o Invocations(ev)
              ELSE UNCHANGED <<remoteTouchEvent, logVars>>
    /\ UNCHANGED <<sReceiveBufferIndex, remoteTouchDownEvent,
                   allowTouchInterrupts, scenario, stream, ends, idleAt,
                   oosAt, pass, replay, trace, regVars, mainVars, chartVars, txVars>>

NextPolled ==
    \/ pass = 1 /\ USART_RX_vect
    \/ Replay
    \/ SerialReceives
    \/ serialEvent

SpecPolled == InitPolled /\ [][NextPolled]_vars

(***************************************************************************)
(* The Chart object (STM32/lib/graphics/src/Chart.cpp).  On the STM32 an   *)
(* int has 32 bits.  An addition or multiplication of two ints that        *)
(* leaves the range is undefined: the build stores the wrapped value or,   *)
(* when it traps on overflow, the call does not return.                    *)
(***************************************************************************)
INT_MAX == 2147483647
INT_MIN == (0 - 2147483647) - 1

\* a + b leaves the range of an int
AddOverflows(a, b) ==
    \/ b > 0 /\ a > INT_MAX - b
    \/ b < 0 /\ a < INT_MIN - b

\* a + b in 32 bits, wrapped
AddInt(a, b) ==
    IF b > 0 /\ a > INT_MAX - b
    THEN ((a - INT_MAX) - 1) + ((b - INT_MAX) - 1)
    ELSE IF b < 0 /\ a < INT_MIN - b
    THEN ((a + INT_MAX) + 1) + ((b + INT_MAX) + 1)
    ELSE a + b

\* a - b leaves the range of an int
SubOverflows(a, b) ==
    \/ b > 0 /\ a < INT_MIN + b
    \/ b < 0 /\ a > INT_MAX + b

\* a - b in 32 bits, wrapped
SubInt(a, b) ==
    IF b = INT_MIN THEN AddInt(AddInt(a, INT_MAX), 1)
    ELSE AddInt(a, 0 - b)

\* a * n for a small n >= 0, in 32 bits, wrapped
RECURSIVE MulInt(_, _)
MulInt(a, n) == IF n = 0 THEN 0 ELSE AddInt(MulInt(a, n - 1), a)

\* a * n leaves the range of an int (n > 0)
MulOverflows(a, n) ==
    \/ a > INT_MAX \div n
    \/ a < 0 - ((INT_MAX \div n) + (IF INT_MAX % n = n - 1 THEN 1 ELSE 0))

\* the C division a / d for d > 0: it truncates toward zero
CDiv(a, d) ==
    IF a >= 0 \/ a % d = 0 THEN a \div d ELSE (a \div d) + 1

\* what a build makes of an int operation: it goes on with the wrapped
\* value, or it traps when the operation overflows (then the call does not
\* return and its result means nothing)
IntOutcomes(aOverflows, aWrapped) ==
    { [trapped |-> t, value |-> aWrapped] :
          t \in IF aOverflows THEN BOOLEAN ELSE {FALSE} }

\* ---- stepXLabelStartValueInt / stepYLabelStartValueInt ----
\* the body the two functions share: the stepped and clipped start value and
\* the result
StepLabelStartValue(aStart, aIncrement, aDoIncrement, aMinValue, aMaxValue) ==
    IF aDoIncrement
    THEN LET stepped == AddInt(aStart, aIncrement)
         IN  IF stepped > aMaxValue
             THEN [start |-> aMaxValue, tRetval |-> FALSE]
             ELSE [start |-> stepped, tRetval |-> TRUE]
    ELSE LET stepped == SubInt(aStart, aIncrement)
         IN  IF stepped < aMinValue
             THEN [start |-> aMinValue, tRetval |-> FALSE]
             ELSE [start |-> stepped, tRetval |-> TRUE]

StepOverflows(aStart, aIncrement, aDoIncrement) ==
    IF aDoIncrement THEN AddOverflows(aStart, aIncrement)
    ELSE SubOverflows(aStart, aIncrement)

\* the values tried
LabelStartValues == {INT_MIN + 3, 0, INT_MAX - 5}
LabelIncrements == {1, 10}
LabelLimits == {INT_MIN, 0 - 10, 0 - 8, 8, 10, INT_MAX}

StepCall(aFn, aAxis, aDoIncrement, aMinValue, aMaxValue, aOld, aIncrement, aOutcome) ==
    [fn |-> aFn, axis |-> aAxis, aDoIncrement |-> aDoIncrement,
     aMinValue |-> aMinValue, aMaxValue |-> aMaxValue, old |-> aOld,
     increment |-> aIncrement, trapped |-> aOutcome.trapped,
     ret |-> aOutcome.value]

stepXLabelStartValueInt ==
    /\ chartCall = NoChartCall
    /\ \E aDoIncrement \in BOOLEAN, aMinValue \in LabelLimits,
          aMaxValue \in LabelLimits :
          LET r == StepLabelStartValue(mXLabelStartValue,
                                       mXLabelBaseIncrementValue,
                                       aDoIncrement, aMinValue, aMaxValue)
          IN  \E o \in IntOutcomes(StepOverflows(mXLabelStartValue,
                                       mXLabelBaseIncrementValue,
                                       aDoIncrement), r.tRetval) :
                  /\ mXLabelStartValue' =
                         IF o.trapped THEN mXLabelStartValue ELSE r.start
                  /\ chartCall' =
                         StepCall("stepXLabelStartValueInt", "X",
                                  aDoIncrement, aMinValue, aMaxValue,
                                  mXLabelStartValue,
                                  mXLabelBaseIncrementValue, o)
    /\ UNCHANGED <<rxVars, allowTouchInterrupts, slotVars, srcVars, regVars,
                   logVars, mainVars, txVars, mAxesSize, mPositionX,
                   mPositionY, mWidthX, mHeightY, mGridXSpacing,
                   mXScaleFactor, mXLabelBaseIncrementValue,
                   mYLabelStartValue, mYLabelIncrementValue>>

stepYLabelStartValueInt ==
    /\ chartCall = NoChartCall
    /\ \E aDoIncrement \in BOOLEAN, aMinValue \in LabelLimits,
          aMaxValue \in LabelLimits :
          LET r == StepLabelStartValue(mYLabelStartValue,
                                       mYLabelIncrementValue,
                                       aDoIncrement, aMinValue, aMaxValue)
          IN  \E o \in IntOutcomes(StepOverflows(mYLabelStartValue,
                                       mYLabelIncrementValue,
                                       aDoIncrement), r.tRetval) :
                  /\ mYLabelStartValue' =
                         IF o.trapped THEN mYLabelStartValue ELSE r.start
                  /\ chartCall' =
                         StepCall("stepYLabelStartValueInt", "Y",
                                  aDoIncrement, aMinValue, aMaxValue,
                                  mYLabelStartValue,
                                  mYLabelIncrementValue, o)
    /\ UNCHANGED <<rxVars, allowTouchInterrupts, slotVars, srcVars, regVars,
                   logVars, mainVars, txVars, mAxesSize, mPositionX,
                   mPositionY, mWidthX, mHeightY, mGridXSpacing,
                   mXScaleFactor, mXLabelStartValue,
                   mXLabelBaseIncrementValue, mYLabelIncrementValue>>

\* ---- adjustIntWithScaleFactor ----
adjustIntWithScaleFactor(aValue, aScaleFactor) ==
    IF aScaleFactor = 0 THEN aValue
    ELSE IF aScaleFactor > 1 THEN CDiv(aValue, aScaleFactor)
    ELSE IF aScaleFactor = 1 THEN CDiv(MulInt(aValue, 2), 3)
    ELSE IF aScaleFactor = 0 - 1 THEN CDiv(MulInt(aValue, 3), 2)
    ELSE MulInt(aValue, 0 - aScaleFactor)

\* the multiplication the call makes leaves the range of an int
AdjustOverflows(aValue, aScaleFactor) ==
    IF aScaleFactor = 1 THEN MulOverflows(aValue, 2)
    ELSE IF aScaleFactor = 0 - 1 THEN MulOverflows(aValue, 3)
    ELSE IF aScaleFactor < 0 - 1 THEN MulOverflows(aValue, 0 - aScaleFactor)
    ELSE FALSE

MaxScaleFactor == 3
ScaleFactors == (0 - MaxScaleFactor)..MaxScaleFactor
AdjustValues == {INT_MIN, 0 - 1073741824, 0 - 7, 0 - 1, 0, 1, 7, 8,
                 1073741824, INT_MAX}

adjustIntWithScaleFactorCall ==
    /\ chartCall = NoChartCall
    /\ \E aValue \in AdjustValues, aScaleFactor \in ScaleFactors :
         \E o \in IntOutcomes(AdjustOverflows(aValue, aScaleFactor),
                              adjustIntWithScaleFactor(aValue, aScaleFactor)) :
             chartCall' = [fn |-> "adjustIntWithScaleFactor",
                           aValue |-> aValue, aScaleFactor |-> aScaleFactor,
                           trapped |-> o.trapped, ret |-> o.value]
    /\ UNCHANGED <<rxVars, allowTouchInterrupts, slotVars, srcVars, regVars,
                   logVars, mainVars, txVars, mAxesSize, mPositionX,
                   mPositionY, mWidthX, mHeightY, mGridXSpacing,
                   mXScaleFactor, mXLabelStartValue,
                   mXLabelBaseIncrementValue, mYLabelStartValue,
                   mYLabelIncrementValue>>

\* ---- initChart / checkParameterValues ----
\* Chart.h is not part of the sources: the limit of the axes size and the
\* error codes are named here as Chart.cpp names them
CHART_MAX_AXES_SIZE == 10
CHART_ERROR_AXES_SIZE == "CHART_ERROR_AXES_SIZE"
CHART_ERROR_POS_X == "CHART_ERROR_POS_X"
CHART_ERROR_POS_Y == "CHART_ERROR_POS_Y"
CHART_ERROR_WIDTH == "CHART_ERROR_WIDTH"
CHART_ERROR_HEIGHT == "CHART_ERROR_HEIGHT"
CHART_ERROR_GRID_X_RESOLUTION == "CHART_ERROR_GRID_X_RESOLUTION"
CHART_NO_ERROR == "0"

\* what mDisplay->getDisplayWidth() and getDisplayHeight() give
DisplayWidth == 320
DisplayHeight == 240

\* the members are those initChart has stored; the result is the members
\* after the checks, the steps taken in the order of the code
checkParameterValues(aAxesSize, aPositionX, aPositionY, aWidthX, aHeightY, aGridXSpacing) ==
    LET \* 91-94: uint8_t promotes to int, 0 - 1 is -1
        badAxes == aAxesSize - 1 > CHART_MAX_AXES_SIZE
        axes == IF badAxes THEN CHART_MAX_AXES_SIZE ELSE aAxesSize
        \* 95
        t2AxesSize == ToUint16(2 * axes)
        \* 96-100
        badX == aPositionX < t2AxesSize - 1
        x1 == IF badX THEN ToUint16(t2AxesSize - 1) ELSE aPositionX
        w1 == IF badX THEN 100 ELSE aWidthX
        \* 101-104
        badY == aPositionY > DisplayHeight - t2AxesSize
        y == IF badY THEN ToUint16(DisplayHeight - t2AxesSize)
             ELSE aPositionY
        \* 105-109
        badW == x1 + w1 > DisplayWidth
        x2 == IF badW THEN 0 ELSE x1
        w2 == IF badW THEN 100 ELSE w1
        \* 111-114
        badH == aHeightY > y + 1
        h == IF badH THEN ToUint16(y + 1) ELSE aHeightY
        \* 116-119
        badG == aGridXSpacing > w2
        g == IF badG THEN (w2 \div 2) % 256 ELSE aGridXSpacing
    IN  [mAxesSize |-> axes, mPositionX |-> x2, mPositionY |-> y,
         mWidthX |-> w2, mHeightY |-> h, mGridXSpacing |-> g,
         tRetValue |-> IF badG THEN CHART_ERROR_GRID_X_RESOLUTION
                       ELSE IF badH THEN CHART_ERROR_HEIGHT
                       ELSE IF badW THEN CHART_ERROR_WIDTH
                       ELSE IF badY THEN CHART_ERROR_POS_Y
                       ELSE IF badX THEN CHART_ERROR_POS_X
                       ELSE IF badAxes THEN CHART_ERROR_AXES_SIZE
                       ELSE CHART_NO_ERROR,
         axesSizeError |-> badAxes]

\* the arguments tried
AxesSizes == {0, 1, 2, CHART_MAX_AXES_SIZE, CHART_MAX_AXES_SIZE + 1,
              CHART_MAX_AXES_SIZE + 2, 255}
PositionsX == {0, 50}
PositionsY == {100, 239}
WidthsX == {3, 300}
HeightsY == {50, 200}
GridXResolutions == {2, 200}

initChart ==
    /\ chartCall = NoChartCall
    /\ \E aPositionX \in PositionsX, aPositionY \in PositionsY,
          aWidthX \in WidthsX, aHeightY \in HeightsY,
          aAxesSize \in AxesSizes, aGridXResolution \in GridXResolutions :
          LET r == checkParameterValues(aAxesSize, aPositionX, aPositionY,
                                        aWidthX, aHeightY, aGridXResolution)
          IN  /\ mAxesSize' = r.mAxesSize
              /\ mPositionX' = r.mPositionX
              /\ mPositionY' = r.mPositionY
              /\ mWidthX' = r.mWidthX
              /\ mHeightY' = r.mHeightY
              /\ mGridXSpacing' = r.mGridXSpacing
              /\ chartCall' = [fn |-> "initChart", aAxesSize |-> aAxesSize,
                               aPositionX |-> aPositionX,
                               aPositionY |-> aPositionY,
                               aWidthX |-> aWidthX, aHeightY |-> aHeightY,
                               aGridXResolution |-> aGridXResolution,
                               axesSizeError |-> r.axesSizeError,
                               ret |-> r.tRetValue]
    /\ UNCHANGED <<rxVars, allowTouchInterrupts, slotVars, srcVars, regVars,
                   logVars, mainVars, txVars, mXScaleFactor,
                   mXLabelStartValue, mXLabelBaseIncrementValue,
                   mYLabelStartValue, mYLabelIncrementValue>>

\* ---- drawChartData ----
\* The data are the elements 0 .. aDataLength - 1; aDataPointer is the index
\* of the next element.  One pass of the loop at 646-715: the elements it
\* reads, the pointer and the counter after the X scaling.
ScaleStep(aPointer, aCounter) ==
    IF mXScaleFactor = 0
    THEN [reads |-> {aPointer}, pointer |-> aPointer + 1,
          counter |-> aCounter]
    ELSE IF mXScaleFactor = 0 - 1
    THEN IF aCounter - 1 < 0
         THEN [reads |-> {aPointer, aPointer + 1}, pointer |-> aPointer + 2,
               counter |-> 1]
         ELSE [reads |-> {aPointer}, pointer |-> aPointer + 1,
               counter |-> aCounter - 1]
    ELSE IF mXScaleFactor <= 0 - 1
    THEN [reads |-> aPointer..(aPointer + aCounter - 1),
          pointer |-> aPointer + aCounter, counter |-> aCounter]
    ELSE IF mXScaleFactor = 1
    THEN IF aCounter - 1 < 0
         THEN [reads |-> {aPointer}, pointer |-> aPointer, counter |-> 2]
         ELSE [reads |-> {aPointer}, pointer |-> aPointer + 1,
               counter |-> aCounter - 1]
    ELSE IF aCounter - 1 = 0
         THEN [reads |-> {aPointer}, pointer |-> aPointer + 1,
               counter |-> mXScaleFactor]
         ELSE [reads |-> {aPointer}, pointer |-> aPointer,
               counter |-> aCounter - 1]

\* the loop from pass i on: the elements read and the number of values drawn
RECURSIVE DrawLoop(_, _, _, _, _, _)
DrawLoop(i, aPointer, aCounter, aDataLength, aReads, aDrawn) ==
    IF i <= 0 THEN [reads |-> aReads, drawn |-> aDrawn]
    ELSE LET s == ScaleStep(aPointer, aCounter)
         IN  IF s.pointer >= aDataLength      \* 687
             THEN [reads |-> aReads \cup s.reads, drawn |-> aDrawn]
             ELSE DrawLoop(i - 1, s.pointer, s.counter, aDataLength,
                           aReads \cup s.reads, aDrawn + 1)

MaxChartData == 4
MaxChartWidth == 3
ChartDataLengths == 0..MaxChartData
ChartWidths == 0..MaxChartWidth

drawChartData ==
    /\ chartCall = NoChartCall
    /\ \E aDataLength \in ChartDataLengths :
          LET tXScaleCounter == IF mXScaleFactor < 0 - 1
                                THEN 0 - mXScaleFactor ELSE mXScaleFactor
              r == DrawLoop(mWidthX, 0, tXScaleCounter, aDataLength, {}, 0)
          IN  chartCall' = [fn |-> "drawChartData",
                            aDataLength |-> aDataLength,
                            reads |-> r.reads, drawn |-> r.drawn]
    /\ UNCHANGED <<rxVars, allowTouchInterrupts, slotVars, srcVars, regVars,
                   logVars, mainVars, txVars, mAxesSize, mPositionX,
                   mPositionY, mWidthX, mHeightY, mGridXSpacing,
                   mXScaleFactor, mXLabelStartValue,
                   mXLabelBaseIncrementValue, mYLabelStartValue,
                   mYLabelIncrementValue>>

\* ---- the specification of the chart functions ----
\* A chart whose labels, scale factor and width have been set (initXLabelInt,
\* initYLabelInt, setXScaleFactor, setWidthX); the serial side is idle.
InitChart ==
    /\ sReceiveBuffer = [i \in BufIdx |-> 0]
    /\ sReceiveBufferIndex = 0
    /\ sReceiveBufferOutOfSync = FALSE
    /\ sReceivedEventType = EVENT_TAG_NO_EVENT
    /\ allowTouchInterrupts = FALSE
    /\ remoteTouchEvent = EmptyEvent
    /\ remoteTouchDownEvent = EmptyEvent
    /\ scenario = <<>>
    /\ stream = StreamBytes(scenario)
    /\ ends = ItemEnds(scenario)
    /\ pos = 0
    /\ idleAt = {0}
    /\ oosAt = {}
    /\ serialAvailable = 0
    /\ SingleStream
    /\ buttonCallbacks = NoCallbacks
    /\ sliderCallbacks = NoCallbacks
    /\ basicTouchHandler = FALSE
    /\ isrDispatch = <<>>
    /\ invoked = <<>>
    /\ MainIdle
    /\ TxInit
    /\ mAxesSize = 1
    /\ mPositionX = 50
    /\ mPositionY = 100
    /\ mWidthX \in ChartWidths
    /\ mHeightY = 50
    /\ mGridXSpacing = 2
    /\ mXScaleFactor \in ScaleFactors
    /\ mXLabelStartValue \in LabelStartValues
    /\ mXLabelBaseIncrementValue \in LabelIncrements
    /\ mYLabelStartValue \in LabelStartValues
    /\ mYLabelIncrementValue \in LabelIncrements
    /\ chartCall = NoChartCall

NextChart ==
    \/ stepXLabelStartValueInt
    \/ stepYLabelStartValueInt
    \/ adjustIntWithScaleFactorCall
    \/ initChart
    \/ drawChartData

SpecChart == InitChart /\ [][NextChart]_vars

(***************************************************************************)
(* initSimpleSerial called again while bytes arrive.  The receive          *)
(* interrupt is enabled at line 99, before the two stores at 100 and 102,  *)
(* so a byte can arrive between them: the call is two steps.               *)
(***************************************************************************)
\* a call that would also put the decoder back to IDLE
initSimpleSerial_ResetsDecoder ==
    /\ mainPc = "idle"
    /\ remoteTouchEvent' = Cleared(remoteTouchEvent)
    /\ sReceiveBufferIndex' = 0
    /\ sReceivedEventType' = EVENT_TAG_NO_EVENT
    /\ sReceiveBufferOutOfSync' = FALSE
    /\ mainPc' = "initSimpleSerial:102"
    /\ UNCHANGED <<sReceiveBuffer, remoteTouchDownEvent,
                   allowTouchInterrupts, srcVars, regVars, logVars,
                   mainEvent, handled, txVars, chartVars>>

\* 100: remoteTouchEvent.EventType = EVENT_TAG_NO_EVENT; the decoder's
\* variables are not named anywhere in the function
initSimpleSerial_100 ==
    /\ mainPc = "idle"
    /\ remoteTouchEvent' = Cleared(remoteTouchEvent)
    /\ mainPc' = "initSimpleSerial:102"
    /\ UNCHANGED <<rxVars, remoteTouchDownEvent, allowTouchInterrupts,
                   srcVars, regVars, logVars, mainEvent, handled, txVars,
                   chartVars>>

\* 102: remoteTouchDownEvent.EventType = EVENT_TAG_NO_EVENT, and return
initSimpleSerial_102 ==
    /\ mainPc = "initSimpleSerial:102"
    /\ remoteTouchDownEvent' = Cleared(remoteTouchDownEvent)
    /\ mainPc' = "idle"
    /\ UNCHANGED <<rxVars, remoteTouchEvent, allowTouchInterrupts,
                   srcVars, regVars, logVars, mainEvent, handled, txVars,
                   chartVars>>

initSimpleSerial == initSimpleSerial_100 \/ initSimpleSerial_102

NextReinit ==
    \/ USART_RX_vect
    \/ SetAllowTouchInterrupts
    \/ initSimpleSerial

SpecReinit == Init /\ [][NextReinit]_vars

TypeOK ==
    /\ sReceiveBufferIndex \in 0..RECEIVE_CALLBACK_DATA_SIZE
    /\ sReceivedEventType \in Byte
    /\ sReceiveBufferOutOfSync \in BOOLEAN
(***************************************************************************)
(* Properties of the receiver                                              *)
(***************************************************************************)
ItemIdx == 1..Len(scenario)
TagOf(k) == scenario[k].f.tag
PayloadOf(k) == Payload(scenario[k].f.p, FrameSize(TagOf(k)))
DestOf(k) == IF TagOf(k) = EVENT_TAG_TOUCH_ACTION_DOWN THEN "down" ELSE "general"

\* the step that delivers the last byte of item k
LastByteOf(k) == pos + 1 = ItemEnd(k) /\ pos' = pos + 1

Holds(aEvent, k) ==
    \A i \in 0..(FrameSize(TagOf(k)) - 1) :
        aEvent.ByteArray[i] = PayloadOf(k)[i + 1]

\* frame k is completed into its slot by this step: the slot holds its tag
\* and payload, or (interrupt-time dispatch) handleEvent was given them
Landed(k) ==
    LET slot == IF DestOf(k) = "down" THEN remoteTouchDownEvent'
                ELSE remoteTouchEvent'
    IN  /\ Holds(slot, k)
        /\ IF allowTouchInterrupts
           THEN /\ Len(isrDispatch') = Len(isrDispatch) + 1
                /\ Last(isrDispatch').slot = DestOf(k)
                /\ Last(isrDispatch').type = TagOf(k)
                /\ Holds([ByteArray |-> Last(isrDispatch').data], k)
           ELSE slot.EventType = TagOf(k)

SlotsUntouched == UNCHANGED <<remoteTouchEvent, remoteTouchDownEvent>>

\* C1: framing round trip.  A well-formed frame [length][tag][P][SYNC_TOKEN]
\* fed byte by byte to a decoder that was IDLE at its first byte, with
\* interrupt-time dispatch disabled, leaves its destination slot (the down
\* slot for TOUCH_DOWN, the general slot otherwise) with EventType = tag and
\* the first size payload bytes equal to P.
C1_FramingRoundTrip ==
    [][ \A k \in ItemIdx :
          ( /\ WellFormed(scenario[k])
            /\ ItemStart(k) \in idleAt
            /\ LastByteOf(k)
            /\ ~allowTouchInterrupts )
          => LET slot == IF TagOf(k) = EVENT_TAG_TOUCH_ACTION_DOWN
                         THEN remoteTouchDownEvent' ELSE remoteTouchEvent'
             IN  slot.EventType = TagOf(k) /\ Holds(slot, k) ]_vars

C1_Witness ==
    \E k \in ItemIdx :
        /\ WellFormed(scenario[k])
        /\ TagOf(k) = EVENT_TAG_SLIDER_CALLBACK_ACTION
        /\ k > 1 /\ ItemStart(k) \in idleAt
        /\ pos = ItemEnd(k)
        /\ isrDispatch = <<>>
        /\ remoteTouchEvent.EventType = EVENT_TAG_SLIDER_CALLBACK_ACTION
        /\ remoteTouchEvent.ByteArray[2] = SYNC_TOKEN
        /\ remoteTouchEvent.ByteArray[11] = 56

\* item j is a literal sync token and all items after it are well-formed
IsSyncByte(j) == scenario[j].kind = "stray" /\ scenario[j].b = SYNC_TOKEN
WellFormedAfter(j) ==
    \A m \in ItemIdx : m > j => WellFormed(scenario[m])

\* C2 as stated: after any prefix, a literal SYNC_TOKEN leaves the decoder
\* not OUT_OF_SYNC and every following well-formed frame is completed into
\* its slot with its own tag and payload.
C2_AnyPrefix ==
    [][ \A j \in ItemIdx :
          (IsSyncByte(j) /\ WellFormedAfter(j))
          => /\ LastByteOf(j) => ~sReceiveBufferOutOfSync'
             /\ \A k \in ItemIdx :
                    (k > j /\ LastByteOf(k)) => Landed(k) ]_vars

\* C2 (amended): resync convergence.  When the corrupted prefix has left
\* the decoder OUT_OF_SYNC, the literal SYNC_TOKEN that follows puts it
\* into IDLE, and every following well-formed frame is completed into its
\* slot with its own tag and payload.
C2_ResyncFromOutOfSync ==
    [][ \A j \in ItemIdx :
          (IsSyncByte(j) /\ WellFormedAfter(j) /\ ItemStart(j) \in oosAt)
          => /\ LastByteOf(j) =>
                    /\ ~sReceiveBufferOutOfSync'
                    /\ sReceiveBufferIndex' = 0
                    /\ sReceivedEventType' = EVENT_TAG_NO_EVENT
             /\ \A k \in ItemIdx :
                    (k > j /\ LastByteOf(k)) => Landed(k) ]_vars

C2_Witness ==
    /\ Len(scenario) = 3
    /\ IsSyncByte(2) /\ WellFormed(scenario[3])
    /\ ItemStart(2) \in oosAt
    /\ pos = ItemEnd(3)
    /\ ~sReceiveBufferOutOfSync
    /\ TagOf(3) = EVENT_TAG_BUTTON_CALLBACK_ACTION
    /\ remoteTouchEvent.EventType = EVENT_TAG_BUTTON_CALLBACK_ACTION
    /\ Holds(remoteTouchEvent, 3)

\* the step completes a TOUCH_DOWN frame
CompletesTouchDown ==
    /\ pos < Len(stream) /\ pos' = pos + 1
    /\ ~sReceiveBufferOutOfSync
    /\ sReceivedEventType = EVENT_TAG_TOUCH_ACTION_DOWN
    /\ sReceiveBufferIndex = RECEIVE_TOUCH_OR_DISPLAY_DATA_SIZE
    /\ tByte = SYNC_TOKEN

\* C3: down-event protection.  While a TOUCH_DOWN event is pending in the
\* down slot, no step other than the completion of a TOUCH_DOWN frame
\* changes the down slot's EventType or payload.
C3_DownEventProtected ==
    [][ ( /\ remoteTouchDownEvent.EventType = EVENT_TAG_TOUCH_ACTION_DOWN
          /\ ~CompletesTouchDown )
        => remoteTouchDownEvent' = remoteTouchDownEvent ]_vars

C3_Witness ==
    /\ Len(scenario) = 3
    /\ WellFormed(scenario[1]) /\ TagOf(1) = EVENT_TAG_TOUCH_ACTION_DOWN
    /\ WellFormed(scenario[2]) /\ TagOf(2) = EVENT_TAG_TOUCH_ACTION_MOVE
    /\ WellFormed(scenario[3])
    /\ TagOf(3) = EVENT_TAG_BUTTON_CALLBACK_ACTION
    /\ pos = ItemEnd(3)
    /\ Len(isrDispatch) = 2
    /\ remoteTouchDownEvent.EventType = EVENT_TAG_TOUCH_ACTION_DOWN
    /\ Holds(remoteTouchDownEvent, 1)

\* the step delivers a wrong trailing byte after a full payload
TrailingMismatch ==
    /\ pos < Len(stream) /\ pos' = pos + 1
    /\ ~sReceiveBufferOutOfSync
    /\ sReceivedEventType # EVENT_TAG_NO_EVENT
    /\ sReceiveBufferIndex = FrameSize(sReceivedEventType)
    /\ tByte # SYNC_TOKEN

\* C5: a frame whose trailing byte is not SYNC_TOKEN is discarded: the
\* decoder enters OUT_OF_SYNC with index 0, neither slot's EventType or
\* payload changes and handleEvent is not called.
C5_MismatchDiscardsFrame ==
    [][ TrailingMismatch
        => /\ sReceiveBufferOutOfSync'
           /\ sReceiveBufferIndex' = 0
           /\ SlotsUntouched
           /\ isrDispatch' = isrDispatch
           /\ invoked' = invoked ]_vars

C5_Witness ==
    /\ Len(scenario) >= 2
    /\ WellFormed(scenario[1]) /\ TagOf(1) = EVENT_TAG_TOUCH_ACTION_MOVE
    /\ scenario[2].kind = "frame" /\ scenario[2].trailer = BadTrailer
    /\ TagOf(2) = EVENT_TAG_TOUCH_ACTION_MOVE
    /\ scenario[2].f.p # scenario[1].f.p
    /\ pos = ItemEnd(2)
    /\ allowTouchInterrupts
    /\ sReceiveBufferOutOfSync /\ sReceiveBufferIndex = 0
    /\ remoteTouchEvent.EventType = EVENT_TAG_TOUCH_ACTION_MOVE
    /\ Holds(remoteTouchEvent, 1)

\* a stream of frames of which exactly frame c has a wrong trailing byte
OneCorrupted(c) ==
    /\ c \in ItemIdx
    /\ scenario[c].kind = "frame" /\ scenario[c].trailer # SYNC_TOKEN
    /\ scenario[c].f.tag # EVENT_TAG_NO_EVENT
    /\ \A m \in ItemIdx : m # c => WellFormed(scenario[m])

NoInnerSync(k) ==
    \A i \in 1..(Len(ItemBytes(scenario[k])) - 1) :
        ItemBytes(scenario[k])[i] # SYNC_TOKEN

\* the step delivers a byte of item k
ByteOf(k) == ItemStart(k) <= pos /\ pos < ItemEnd(k) /\ pos' = pos + 1

CallbackIds == ButtonCallbackIds \cup SliderCallbackIds
FrameHandle(k) == Word(PayloadOf(k)[1], PayloadOf(k)[2])
FrameValue(k) == Int16(Word(PayloadOf(k)[3], PayloadOf(k)[4]))
IsCallbackClass(aEventType) ==
    /\ aEventType >= EVENT_TAG_FIRST_CALLBACK_ACTION_CODE
    /\ aEventType # EVENT_TAG_NO_EVENT

BoundTo(c) ==
    {h \in DOMAIN buttonCallbacks : buttonCallbacks[h] = c}
    \cup {h \in DOMAIN sliderCallbacks : sliderCallbacks[h] = c}

NotInvokedByStep(c) ==
    \A i \in (Len(invoked) + 1)..Len(invoked') : invoked'[i].cb # c

\* the main loop dispatches a pending callback-class event of the general slot
DeferredCallbackDispatch ==
    /\ pos' = pos
    /\ IsCallbackClass(remoteTouchEvent.EventType)
    /\ remoteTouchEvent'.EventType = EVENT_TAG_NO_EVENT

\* C7: handle isolation.  When callback C is registered for handle H only,
\* the dispatch (interrupt-time or deferred) of a callback-class event that
\* carries a handle other than H does not invoke C.
C7_HandleIsolation ==
    [][ Len(invoked') > Len(invoked)
        => \A c \in CallbackIds : \A H \in RegHandles :
             BoundTo(c) = {H}
             => /\ \A k \in ItemIdx :
                       ( /\ LastByteOf(k)
                         /\ WellFormed(scenario[k])
                         /\ IsCallbackClass(TagOf(k))
                         /\ FrameHandle(k) # H )
                       => NotInvokedByStep(c)
                /\ ( /\ DeferredCallbackDispatch
                     /\ HandleOf(remoteTouchEvent) # H )
                       => NotInvokedByStep(c) ]_vars

C7_Witness ==
    /\ buttonCallbacks = (3 :> "cbA" @@ 4 :> "cbB")
    /\ Len(scenario) = 2
    /\ TagOf(1) = EVENT_TAG_BUTTON_CALLBACK_ACTION /\ FrameHandle(1) = 3
    /\ TagOf(2) = EVENT_TAG_BUTTON_CALLBACK_ACTION /\ FrameHandle(2) = 4
    /\ pos = ItemEnd(2)
    /\ Len(isrDispatch) = 2
    /\ Len(invoked) = 2
    /\ invoked[1].cb = "cbA" /\ invoked[1].handle = 3
    /\ invoked[2].cb = "cbB" /\ invoked[2].handle = 4

\* the record of callback aCallback called for frame k
CallFor(aCallback, k) ==
    [cb |-> aCallback, type |-> TagOf(k), handle |-> FrameHandle(k),
     value |-> FrameValue(k)]

RegisteredFor(k) == Resolve(RegistryFor(TagOf(k)), FrameHandle(k))

\* C8: callback delivery.  When a callback is registered for handle H of a
\* widget class and a well-formed callback frame of that class with handle H
\* and value V is received and dispatched (at interrupt time, or later from
\* the slot it is pending in), the callback is invoked with (H, V), once:
\* the slot is empty afterwards and dispatching an empty slot invokes
\* nothing.
C8_CallbackDelivery ==
    [][ /\ \A k \in ItemIdx :
              ( /\ pos + 1 = ItemEnd(k) \/ pos = ItemEnd(k)
                /\ WellFormed(scenario[k])
                /\ IsCallbackClass(TagOf(k))
                /\ ItemStart(k) \in idleAt
                /\ RegisteredFor(k) # "NotFound" )
              => /\ (LastByteOf(k) /\ allowTouchInterrupts)
                        => /\ invoked' =
                                  Append(invoked, CallFor(RegisteredFor(k), k))
                           /\ remoteTouchEvent'.EventType = EVENT_TAG_NO_EVENT
                 /\ (LastByteOf(k) /\ ~allowTouchInterrupts)
                        => invoked' = invoked
                 /\ ( /\ pos = ItemEnd(k)
                      /\ remoteTouchEvent.EventType = TagOf(k)
                      /\ pos' = pos
                      /\ remoteTouchEvent' # remoteTouchEvent )
                        => /\ invoked' =
                                  Append(invoked, CallFor(RegisteredFor(k), k))
                           /\ remoteTouchEvent'.EventType = EVENT_TAG_NO_EVENT
        /\ ( /\ Len(invoked') > Len(invoked)
             /\ pos' = pos
             /\ remoteTouchEvent.EventType = EVENT_TAG_NO_EVENT )
              => \A i \in (Len(invoked) + 1)..Len(invoked') :
                     ~IsCallbackClass(invoked'[i].type) ]_vars

C8_Witness ==
    /\ Len(scenario) = 1
    /\ TagOf(1) = EVENT_TAG_BUTTON_CALLBACK_ACTION
    /\ FrameHandle(1) = 3 /\ FrameValue(1) = 7
    /\ pos = ItemEnd(1)
    /\ buttonCallbacks = (3 :> "cbA")
    /\ invoked = << [cb |-> "cbA", type |-> EVENT_TAG_BUTTON_CALLBACK_ACTION,
                     handle |-> 3, value |-> 7] >>
    /\ remoteTouchEvent.EventType = EVENT_TAG_NO_EVENT
(***************************************************************************)
(* Properties of the encoder                                               *)
(***************************************************************************)
\* a 16 bit word as it appears on the wire, low byte first
WireWord(w) == <<w % 256, w \div 256>>

RECURSIVE WireArgs(_, _, _)
WireArgs(rot, i, n) ==
    IF i >= n THEN <<>>
    ELSE WireWord(Arg(rot, i) % 65536) \o WireArgs(rot, i + 1, n)

\* command header, parameter length and the n parameters of a call
WireCommand(c) ==
    WireWord(c.tag * 256 + SYNC_TOKEN) \o WireWord(2 * c.n)
    \o WireArgs(c.rot, 0, c.n)

WireDataHeader(c) ==
    WireWord(DATAFIELD_TAG_BYTE * 256 + SYNC_TOKEN) \o WireWord(c.len)

IsPrefix(s, t) ==
    /\ Len(s) <= Len(t)
    /\ \A i \in 1..Len(s) : s[i] = t[i]

VariadicCall == txCall.fn \in {"sendUSARTArgs", "sendUSARTArgsAndByteBuffer"}
BufferCall ==
    txCall.fn \in {"sendUSARTArgsAndByteBuffer", "sendUSART5ArgsAndByteBuffer"}

\* C4: argument cap.  For every argument count above 12, sendUSARTArgs and
\* sendUSARTArgsAndByteBuffer return without handing a single byte to the
\* transmitter.
C4_ArgumentCap ==
    (VariadicCall /\ txCall.n > 12)
    => (wire = <<>> /\ txPc = "done" /\ tParamBuffer = <<>>)

C4_Witness ==
    /\ txCall.fn = "sendUSARTArgsAndByteBuffer"
    /\ txCall.n = 13 /\ txCall.len = 2
    /\ txPc = "done"
    /\ wire = <<>>

\* C9: command frame layout.  sendUSARTArgs with 0 <= N <= 12 transmits
\* the word (tag << 8 | SYNC_TOKEN), the word 2N and the N arguments in
\* call order, each as the low 16 bits of the value passed: 4 + 2N bytes,
\* in this order.
C9_CommandFrameLayout ==
    (txCall.fn = "sendUSARTArgs" /\ txCall.n \in 0..12)
    => /\ IsPrefix(wire, WireCommand(txCall))
       /\ txPc = "done" =>
              /\ wire = WireCommand(txCall)
              /\ Len(wire) = 4 + 2 * txCall.n

C9_Witness ==
    /\ txCall.fn = "sendUSARTArgs"
    /\ txCall.n = 12 /\ txCall.tag = 255 /\ txCall.rot = 1
    /\ txPc = "done"
    /\ Len(wire) = 28
    /\ wire[1] = SYNC_TOKEN /\ wire[2] = 255
    /\ wire[11] = 255 /\ wire[12] = 127

\* C10: data block ordering.  sendUSARTArgsAndByteBuffer (0 <= N <= 12)
\* and sendUSART5ArgsAndByteBuffer transmit the command header, the N
\* parameters, the data block header and then the data bytes in buffer
\* order; no data byte is sent before the last header byte, and the wire
\* carries bytes of this command only.
C10_DataBlockOrdering ==
    (BufferCall /\ txCall.n \in 0..12)
    => LET head == WireCommand(txCall) \o WireDataHeader(txCall)
       IN  /\ \A i \in 1..Len(wire) :
                  IF i <= Len(head) THEN wire[i] = head[i]
                  ELSE /\ i - Len(head) <= txCall.len
                       /\ wire[i] = DataBuffer(txCall.seed, i - Len(head) - 1)
           /\ aDataBufferPointer > 0 => aParameterBufferPointer = Len(head)
           /\ Len(wire) = aParameterBufferPointer + aDataBufferPointer
           /\ txPc = "done" => Len(wire) >= Len(head)

C10_Witness ==
    /\ txCall.fn = "sendUSARTArgsAndByteBuffer"
    /\ txCall.n = 12 /\ txCall.len = 2 /\ txCall.seed = 250
    /\ txPc = "done"
    /\ Len(wire) = 34
    /\ wire[29] = SYNC_TOKEN /\ wire[30] = DATAFIELD_TAG_BYTE
    /\ wire[31] = 2 /\ wire[32] = 0
    /\ wire[33] = 250 /\ wire[34] = 251
\* C11: declared data length equals transmitted data length.  For every
\* data length L in 0..65535 passed to sendUSARTArgsAndByteBuffer or
\* sendUSART5ArgsAndByteBuffer, the number of data bytes transmitted after
\* the data block header equals the L written into the header.
C11_DeclaredLengthSent ==
    (BufferCall /\ txCall.n \in 0..12 /\ txPc = "done")
    => LET head == WireCommand(txCall) \o WireDataHeader(txCall)
       IN  /\ SubSeq(wire, 1, Len(head)) = head
           /\ Len(wire) - Len(head) = txCall.len
(***************************************************************************)
(* Further properties of the receiver                                      *)
(***************************************************************************)
SameFrame(j, k) == TagOf(j) = TagOf(k) /\ PayloadOf(j) = PayloadOf(k)

\* frame k is pending, unconsumed, in the general slot
PendingInGeneralSlot(k) ==
    /\ remoteTouchEvent.EventType = TagOf(k)
    /\ Holds(remoteTouchEvent, k)

\* C12: last write wins on the general slot.  In deferred-dispatch mode,
\* when two well-formed frames with tags other than TOUCH_DOWN are
\* completed one after the other and the first is still pending, the
\* general slot holds the tag and payload of the second frame afterwards;
\* nothing is queued (the down slot and the call logs do not change) and
\* the first event is in no slot any more.
C12_LastWriteWins ==
    [][ \A k \in ItemIdx :
          ( /\ k > 1
            /\ WellFormed(scenario[k - 1]) /\ WellFormed(scenario[k])
            /\ DestOf(k - 1) = "general" /\ DestOf(k) = "general"
            /\ ItemStart(k - 1) \in idleAt
            /\ PendingInGeneralSlot(k - 1)
            /\ LastByteOf(k)
            /\ ~allowTouchInterrupts )
          => /\ remoteTouchEvent'.EventType = TagOf(k)
             /\ Holds(remoteTouchEvent', k)
             /\ remoteTouchDownEvent' = remoteTouchDownEvent
             /\ isrDispatch' = isrDispatch /\ invoked' = invoked
             /\ ~SameFrame(k - 1, k)
                    => ~( /\ remoteTouchEvent'.EventType = TagOf(k - 1)
                          /\ Holds(remoteTouchEvent', k - 1) ) ]_vars

C12_Witness ==
    /\ Len(scenario) = 3
    /\ WellFormed(scenario[2]) /\ WellFormed(scenario[3])
    /\ TagOf(2) = EVENT_TAG_BUTTON_CALLBACK_ACTION
    /\ TagOf(3) = EVENT_TAG_TOUCH_ACTION_MOVE
    /\ ItemStart(2) \in idleAt
    /\ pos = ItemEnd(3)
    /\ isrDispatch = <<>>
    /\ remoteTouchEvent.EventType = EVENT_TAG_TOUCH_ACTION_MOVE
    /\ Holds(remoteTouchEvent, 3)
    /\ remoteTouchEvent.ByteArray[11] = PayloadOf(2)[12]
(***************************************************************************)
(* Further properties of the dispatcher                                    *)
(***************************************************************************)
\* a step of the main loop: no byte arrives, nothing is registered or
\* switched
MainLoopStep ==
    /\ pos' = pos
    /\ allowTouchInterrupts' = allowTouchInterrupts
    /\ UNCHANGED regVars

FramesCompleted(aPos) == {k \in ItemIdx : ItemEnd(k) <= aPos}

DispatchOfSlot(aSlot, aSlotAfter) ==
    /\ aSlot.EventType # EVENT_TAG_NO_EVENT
    /\ aSlotAfter.EventType = EVENT_TAG_NO_EVENT
    /\ aSlotAfter.ByteArray = aSlot.ByteArray

\* C13: at-most-once delivery.  Dispatch on a slot whose EventType is
\* NO_EVENT invokes no handler and changes nothing; dispatch on a non-empty
\* slot invokes at most one handler and leaves the slot's EventType
\* NO_EVENT (at interrupt time too), so that no completed frame is handled
\* twice.
C13_AtMostOnce ==
    [][ /\ MainLoopStep
            => /\ remoteTouchEvent.EventType = EVENT_TAG_NO_EVENT
                      => remoteTouchEvent' = remoteTouchEvent
               /\ remoteTouchDownEvent.EventType = EVENT_TAG_NO_EVENT
                      => remoteTouchDownEvent' = remoteTouchDownEvent
               /\ remoteTouchEvent' # remoteTouchEvent
                      => DispatchOfSlot(remoteTouchEvent, remoteTouchEvent')
               /\ remoteTouchDownEvent' # remoteTouchDownEvent
                      => DispatchOfSlot(remoteTouchDownEvent,
                                        remoteTouchDownEvent')
               /\ Len(invoked') > Len(invoked)
                      => /\ Len(invoked') = Len(invoked) + 1
                         /\ \/ DispatchOfSlot(remoteTouchEvent,
                                              remoteTouchEvent')
                            \/ DispatchOfSlot(remoteTouchDownEvent,
                                              remoteTouchDownEvent')
        /\ \A k \in ItemIdx :
               (LastByteOf(k) /\ allowTouchInterrupts)
               => (IF DestOf(k) = "down" THEN remoteTouchDownEvent'
                   ELSE remoteTouchEvent').EventType = EVENT_TAG_NO_EVENT
        /\ Len(invoked') <= Cardinality(FramesCompleted(pos')) ]_vars

C13_Witness ==
    /\ Len(scenario) = 2
    /\ TagOf(1) = EVENT_TAG_TOUCH_ACTION_DOWN
    /\ TagOf(2) = EVENT_TAG_BUTTON_CALLBACK_ACTION /\ FrameHandle(2) = 3
    /\ pos = ItemEnd(2)
    /\ isrDispatch = <<>>
    /\ Len(invoked) = 2
    /\ invoked[1].cb = "cbA" /\ invoked[2].cb = "touchHandler"
    /\ remoteTouchEvent.EventType = EVENT_TAG_NO_EVENT
    /\ remoteTouchDownEvent.EventType = EVENT_TAG_NO_EVENT
    /\ Holds(remoteTouchEvent, 2) /\ Holds(remoteTouchDownEvent, 1)
\* the event in aSlot is of a callback class and no callback is registered
\* for its handle in that class
UnknownHandle(aSlot) ==
    /\ IsCallbackClass(aSlot.EventType)
    /\ Resolve(RegistryFor(aSlot.EventType), HandleOf(aSlot)) = "NotFound"

DecoderIdle ==
    /\ ~sReceiveBufferOutOfSync
    /\ sReceiveBufferIndex = 0
    /\ sReceivedEventType = EVENT_TAG_NO_EVENT

\* C14: unknown handle is non-fatal.  The dispatch (deferred or at
\* interrupt time) of a callback-class event whose handle has no callback
\* registered for its widget class invokes no callback, leaves the slot
\* cleared and the decoder as it is, and the frames that follow are still
\* received and dispatched.
C14_UnknownHandleNonFatal ==
    [][ /\ ( /\ MainLoopStep
             /\ UnknownHandle(remoteTouchEvent)
             /\ remoteTouchEvent' # remoteTouchEvent )
            => /\ invoked' = invoked
               /\ DispatchOfSlot(remoteTouchEvent, remoteTouchEvent')
               /\ UNCHANGED <<rxVars, remoteTouchDownEvent, isrDispatch>>
        /\ \A k \in ItemIdx :
               ( /\ IsCallbackClass(TagOf(k))
                 /\ RegisteredFor(k) = "NotFound" )
               => /\ (LastByteOf(k) /\ allowTouchInterrupts)
                         => /\ Len(isrDispatch') = Len(isrDispatch) + 1
                            /\ Last(isrDispatch').type = TagOf(k)
                            /\ Holds([ByteArray |-> Last(isrDispatch').data],
                                     k)
                            /\ invoked' = invoked
                            /\ remoteTouchEvent'.EventType
                                   = EVENT_TAG_NO_EVENT
                            /\ DecoderIdle'
                  /\ \A j \in ItemIdx :
                         ( /\ j > k
                           /\ LastByteOf(j) )
                         => /\ Landed(j)
                            /\ ( /\ allowTouchInterrupts
                                 /\ IsCallbackClass(TagOf(j))
                                 /\ RegisteredFor(j) # "NotFound" )
                                   => invoked' =
                                          Append(invoked,
                                                 CallFor(RegisteredFor(j), j))
      ]_vars

C14_Witness ==
    /\ buttonCallbacks = (3 :> "cbA")
    /\ Len(scenario) = 2
    /\ TagOf(1) = EVENT_TAG_BUTTON_CALLBACK_ACTION /\ FrameHandle(1) = 4
    /\ TagOf(2) = EVENT_TAG_BUTTON_CALLBACK_ACTION /\ FrameHandle(2) = 3
    /\ pos = ItemEnd(2)
    /\ Len(isrDispatch) = 2
    /\ isrDispatch[1].type = EVENT_TAG_BUTTON_CALLBACK_ACTION
    /\ HandleOf([ByteArray |-> isrDispatch[1].data]) = 4
    /\ invoked = <<CallFor("cbA", 2)>>
    /\ remoteTouchEvent.EventType = EVENT_TAG_NO_EVENT
(***************************************************************************)
(* Properties of the receiver over whole streams                           *)
(***************************************************************************)
AllWellFormed == \A k \in ItemIdx : WellFormed(scenario[k])

\* C15: receive ordering.  With interrupt-time dispatch enabled and a
\* stream that is a concatenation of well-formed frames, the (tag, payload)
\* pairs handed to handleEvent are, after every byte, those of the frames
\* received so far, in stream order, none skipped and none duplicated.
C15_ReceiveOrdering ==
    (allowTouchInterrupts /\ AllWellFormed)
    => /\ Len(isrDispatch) = Cardinality(FramesCompleted(pos))
       /\ \A i \in 1..Len(isrDispatch) :
              /\ isrDispatch[i].type = TagOf(i)
              /\ Holds([ByteArray |-> isrDispatch[i].data], i)
              /\ isrDispatch[i].at = ItemEnd(i)
              /\ isrDispatch[i].slot = DestOf(i)

C15_Witness ==
    /\ allowTouchInterrupts /\ AllWellFormed
    /\ Len(scenario) = 2
    /\ TagOf(1) = EVENT_TAG_BUTTON_CALLBACK_ACTION
    /\ TagOf(2) = EVENT_TAG_TOUCH_ACTION_DOWN
    /\ pos = ItemEnd(2)
    /\ Len(isrDispatch) = 2
    /\ isrDispatch[1].type = EVENT_TAG_BUTTON_CALLBACK_ACTION
    /\ isrDispatch[2].type = EVENT_TAG_TOUCH_ACTION_DOWN
    /\ isrDispatch[1].data[2] = 7 /\ isrDispatch[2].data[2] = 7

\* C17 as stated: of two streams that differ in the frames' length bytes
\* only, the second leaves slots, decoder state and invocations after each
\* byte as the first did.
C17_LengthByteDead ==
    (pass = 2 /\ pos > 0) => Observable = trace[pos]

\* every length byte delivered so far has met an IDLE decoder
LengthBytesMetIdle ==
    \A k \in ItemIdx : ItemStart(k) < pos => ItemStart(k) \in idleAt

\* C17 (amended): the length byte is dead data for an IDLE decoder.  Of two
\* streams that differ in the frames' length bytes only and in which every
\* length byte arrives while the decoder is IDLE, the second leaves the
\* slots, the decoder state (out-of-sync flag, index, captured tag) and the
\* invocations after each byte as the first did.
C17_LengthByteDeadWhenIdle ==
    (pass = 2 /\ pos > 0 /\ LengthBytesMetIdle)
    => Observable = trace[pos]

C17_Witness ==
    /\ pass = 2
    /\ Len(scenario) = 2 /\ AllWellFormed
    /\ scenario[1].f.len = SYNC_TOKEN /\ replay[1].f.len = 7
    /\ scenario[2].f.len = 0 /\ replay[2].f.len = 15
    /\ TagOf(1) = EVENT_TAG_TOUCH_ACTION_DOWN
    /\ TagOf(2) = EVENT_TAG_BUTTON_CALLBACK_ACTION
    /\ pos = ItemEnd(2)
    /\ LengthBytesMetIdle
    /\ allowTouchInterrupts
    /\ Len(invoked) = 2
    /\ Observable = trace[pos]
(***************************************************************************)
(* Properties of the slot hand-over                                        *)
(***************************************************************************)
\* aEvent is frame k as received: its tag with its payload
IsFrame(aEvent, k) ==
    /\ aEvent.EventType = TagOf(k)
    /\ Holds(aEvent, k)

\* C16: the lock-free slot hand-over is race-free.  In deferred-dispatch
\* mode, with the receive interrupt free to run between any two steps of
\* the main loop (read EventType, read payload, clear EventType), every
\* event the main loop handles is the tag of one received frame together
\* with the payload of that same frame.
C16_HandOverRaceFree ==
    \A i \in 1..Len(handled) :
        \E k \in ItemIdx : ItemEnd(k) <= pos /\ IsFrame(handled[i], k)
(***************************************************************************)
(* Properties of the decoder states                                        *)
(***************************************************************************)
ByteArrives == pos < Len(stream) /\ pos' = pos + 1

C19_TagCapture ==
    [][ \A k \in ItemIdx :
          ( /\ scenario[k].kind = "frame"
            /\ ItemStart(k) \in idleAt
            /\ ByteOf(k) )
          => LET off == pos - ItemStart(k)
                 size == FrameSize(TagOf(k))
             IN  /\ off = 1
                     => /\ sReceivedEventType' = TagOf(k)
                        /\ sReceiveBufferIndex' = 0
                        /\ ~sReceiveBufferOutOfSync'
                 /\ (off >= 2 /\ off < 2 + size)
                     => /\ sReceiveBuffer'[off - 2] = tByte
                        /\ sReceiveBufferIndex' = off - 1
                        /\ sReceivedEventType' = TagOf(k)
                        /\ SlotsUntouched
                 /\ off = 2 + size
                     => IF tByte = SYNC_TOKEN
                        THEN Landed(k) /\ DecoderIdle'
                        ELSE sReceiveBufferOutOfSync' /\ SlotsUntouched
      ]_vars
\* the step delivers the sync token that completes the frame collected
CompletesFrame ==
    /\ ByteArrives
    /\ ~sReceiveBufferOutOfSync
    /\ sReceivedEventType # EVENT_TAG_NO_EVENT
    /\ sReceiveBufferIndex = FrameSize(sReceivedEventType)
    /\ tByte = SYNC_TOKEN

\* aSlotAfter has been written with the frame collected
WrittenWithFrame(aSlotAfter) ==
    /\ \A i \in 0..(FrameSize(sReceivedEventType) - 1) :
           aSlotAfter.ByteArray[i] = sReceiveBuffer[i]
    /\ IF allowTouchInterrupts
       THEN /\ Len(isrDispatch') = Len(isrDispatch) + 1
            /\ Last(isrDispatch').type = sReceivedEventType
       ELSE aSlotAfter.EventType = sReceivedEventType

\* C20: slot routing.  A completed frame writes exactly one slot: a
\* TOUCH_DOWN frame the down slot, leaving EventType and payload of the
\* general slot unchanged, a frame with any other tag the general slot,
\* leaving the down slot unchanged; in both cases the decoder returns to
\* IDLE with index 0 and captured tag NO_EVENT.
C20_SlotRouting ==
    [][ CompletesFrame
        => /\ IF sReceivedEventType = EVENT_TAG_TOUCH_ACTION_DOWN
              THEN /\ WrittenWithFrame(remoteTouchDownEvent')
                   /\ remoteTouchEvent' = remoteTouchEvent
              ELSE /\ WrittenWithFrame(remoteTouchEvent')
                   /\ remoteTouchDownEvent' = remoteTouchDownEvent
           /\ DecoderIdle' ]_vars

C20_Witness ==
    /\ Len(scenario) = 2
    /\ WellFormed(scenario[1]) /\ WellFormed(scenario[2])
    /\ TagOf(1) = EVENT_TAG_TOUCH_ACTION_MOVE /\ scenario[1].f.p = 2
    /\ TagOf(2) = EVENT_TAG_TOUCH_ACTION_DOWN
    /\ pos = ItemEnd(2)
    /\ isrDispatch = <<>>
    /\ DecoderIdle
    /\ IsFrame(remoteTouchEvent, 1)
    /\ IsFrame(remoteTouchDownEvent, 2)
(***************************************************************************)
(* Properties of the interrupt-time dispatch                               *)
(***************************************************************************)
\* C21: immediate dispatch.  With interrupt-time dispatch enabled,
\* handleEvent is called exactly once per completed frame, in the byte step
\* that completes it, with the slot just written (tag and payload of the
\* frame) and after index and captured tag have been reset; with it
\* disabled no byte makes the receive interrupt call handleEvent.
C21_ImmediateDispatch ==
    [][ /\ (CompletesFrame /\ allowTouchInterrupts)
            => /\ Len(isrDispatch') = Len(isrDispatch) + 1
               /\ SubSeq(isrDispatch', 1, Len(isrDispatch)) = isrDispatch
               /\ LET call == Last(isrDispatch')
                      slot == IF call.slot = "down" THEN remoteTouchDownEvent'
                              ELSE remoteTouchEvent'
                  IN  /\ call.type = sReceivedEventType
                      /\ call.slot =
                           (IF sReceivedEventType = EVENT_TAG_TOUCH_ACTION_DOWN
                            THEN "down" ELSE "general")
                      /\ \A i \in 0..(FrameSize(sReceivedEventType) - 1) :
                             call.data[i] = sReceiveBuffer[i]
                      /\ call.data = slot.ByteArray
                      /\ call.at = pos'
                      /\ call.index = 0
                      /\ call.eventType = EVENT_TAG_NO_EVENT
        /\ ~(CompletesFrame /\ allowTouchInterrupts)
            => isrDispatch' = isrDispatch ]_vars

C21_Witness ==
    /\ Len(scenario) = 3 /\ AllWellFormed
    /\ TagOf(1) = EVENT_TAG_TOUCH_ACTION_MOVE
    /\ TagOf(2) = EVENT_TAG_SLIDER_CALLBACK_ACTION
    /\ TagOf(3) = EVENT_TAG_BUTTON_CALLBACK_ACTION
    /\ pos = ItemEnd(3)
    /\ Len(isrDispatch) = 1
    /\ isrDispatch[1].at = ItemEnd(2)
    /\ isrDispatch[1].type = EVENT_TAG_SLIDER_CALLBACK_ACTION
    /\ isrDispatch[1].index = 0
    /\ IsFrame(remoteTouchEvent, 3)
(***************************************************************************)
(* Properties of the dispatch by kind                                      *)
(***************************************************************************)
NewInvocations == SubSeq(invoked', Len(invoked) + 1, Len(invoked'))

\* the kind of the event this step dispatches: the frame completed with
\* interrupt-time dispatch, or the pending event the main loop takes
DispatchedKinds ==
    {TagOf(k) : k \in {j \in ItemIdx : LastByteOf(j) /\ allowTouchInterrupts}}
    \cup (IF MainLoopStep /\ remoteTouchEvent' # remoteTouchEvent
          THEN {remoteTouchEvent.EventType} ELSE {})
    \cup (IF MainLoopStep /\ remoteTouchDownEvent' # remoteTouchDownEvent
          THEN {remoteTouchDownEvent.EventType} ELSE {})

\* C22: dispatch partition by kind.  Dispatching an event of a kind below
\* FIRST_CALLBACK_ACTION_CODE invokes the basic touch handler only, never a
\* callback of the registry; dispatching an event of a kind at or above it
\* never invokes the basic touch handler.
C22_DispatchPartition ==
    [][ \A kind \in DispatchedKinds :
          \A i \in 1..Len(NewInvocations) :
              /\ NewInvocations[i].type = kind
              /\ IF kind < EVENT_TAG_FIRST_CALLBACK_ACTION_CODE
                 THEN NewInvocations[i].cb = "touchHandler"
                 ELSE /\ NewInvocations[i].cb # "touchHandler"
                      /\ NewInvocations[i].cb \in CallbackIds ]_vars

C22_Witness ==
    /\ basicTouchHandler
    /\ buttonCallbacks = (3 :> "cbA")
    /\ Len(scenario) = 2
    /\ TagOf(1) = EVENT_TAG_TOUCH_ACTION_DOWN /\ FrameHandle(1) = 3
    /\ TagOf(2) = EVENT_TAG_BUTTON_CALLBACK_ACTION /\ FrameHandle(2) = 3
    /\ pos = ItemEnd(2)
    /\ Len(isrDispatch) = 2
    /\ Len(invoked) = 2
    /\ invoked[1].cb = "touchHandler"
    /\ invoked[1].type = EVENT_TAG_TOUCH_ACTION_DOWN
    /\ invoked[2].cb = "cbA"
(***************************************************************************)
(* Further properties of the encoder                                       *)
(***************************************************************************)
CallRunning == txCall.fn # "none" /\ txPc \in {"param", "data", "done"}

\* C23: the encoder stays inside its fixed stack buffer.  For every
\* argument count N <= 12 (negative N included) each of the four send
\* functions writes only elements of its local tParamBuffer, and the
\* parameter byte count it hands to the transmitter is at most the size of
\* that buffer in bytes; no byte is read from outside the elements written.
C23_InsideParamBuffer ==
    (CallRunning /\ txCall.n <= 12)
    => /\ Len(tParamBuffer) <= ParamBufferWords(txCall.fn)
       /\ aParameterBufferLength > 0
              => /\ aParameterBufferPointer + aParameterBufferLength
                        <= 2 * ParamBufferWords(txCall.fn)
                 /\ aParameterBufferPointer + aParameterBufferLength
                        <= 2 * Len(tParamBuffer)
       /\ aParameterBufferPointer <= 2 * Len(tParamBuffer)

\* the bytes the transmitter has written so far: the first
\* aParameterBufferPointer bytes of the parameter buffer, then the first
\* aDataBufferPointer bytes of the data buffer, each once and in order
WrittenSoFar ==
    [i \in 1..(aParameterBufferPointer + aDataBufferPointer) |->
        IF i <= aParameterBufferPointer
        THEN ParamByte(i - 1)
        ELSE DataBuffer(txCall.seed, i - 1 - aParameterBufferPointer)]

NonNegativeLengths == aParameterBufferLength >= 0 /\ aDataBufferLength >= 0

\* one step inside a call of sendUSARTBufferNoSizeCheck
InsideCall == txPc \in {"param", "data"} /\ txPc' # "idle"

\* the transmitter busy-waits: the register is full and no loop pass can run
BusyWaiting ==
    /\ txPc \in {"param", "data"}
    /\ ~UDRE0
    /\ ~ENABLED TxParameterByte
    /\ ~ENABLED TxDataByte

\* C24: the send terminates.  When the transmit register becomes empty
\* again after every byte written, each call of sendUSARTBufferNoSizeCheck
\* with non-negative lengths ends, having written exactly
\* aParameterBufferLength + aDataBufferLength bytes, each byte once: the
\* bytes on the wire are always the bytes passed so far, every loop pass
\* moves one byte from the remaining length to the written ones, and the
\* call reaches its end with both lengths used up.  While the register is
\* full the call cannot move by itself.
C24_SendTerminates ==
    /\ [](NonNegativeLengths => wire = WrittenSoFar)
    /\ [][InsideCall =>
             /\ aParameterBufferPointer' + aParameterBufferLength'
                    = aParameterBufferPointer + aParameterBufferLength
             /\ aDataBufferPointer' + aDataBufferLength'
                    = aDataBufferPointer + aDataBufferLength
             /\ Len(wire') <= Len(wire) + 1]_vars
    /\ []((txPc \in {"param", "data"} /\ ~UDRE0) => BusyWaiting)
    /\ (txPc \in {"param", "data"} /\ NonNegativeLengths)
           ~> (/\ txPc = "done"
               /\ aParameterBufferLength = 0
               /\ aDataBufferLength = 0)

C24_Witness ==
    /\ txCall.fn = "sendUSART5ArgsAndByteBuffer"
    /\ txCall.len = 2
    /\ txPc = "done"
    /\ aParameterBufferPointer = 18 /\ aDataBufferPointer = 2
    /\ aParameterBufferLength = 0 /\ aDataBufferLength = 0
    /\ Len(wire) = 20

(***************************************************************************)
(* Further invariants of the receiver                                      *)
(***************************************************************************)
\* the interrupt is about to store the byte into sReceiveBuffer
StoresByte ==
    /\ pos < Len(stream)
    /\ ~sReceiveBufferOutOfSync
    /\ IF sReceivedEventType = EVENT_TAG_NO_EVENT
       THEN sReceiveBufferIndex # 1
       ELSE sReceiveBufferIndex # FrameSize(sReceivedEventType)

\* C25: receive buffer bounds.  In every state reachable by any byte
\* sequence sReceiveBufferIndex is at most the payload size of the captured
\* tag, and at most 1 while no tag is captured; every store into
\* sReceiveBuffer uses an index below RECEIVE_CALLBACK_DATA_SIZE; and the
\* bytes copied into a slot are the bytes stored for the current frame,
\* the bytes received between its tag and its sync token, no more.
C25_ReceiveBufferBounds ==
    /\ [](/\ sReceivedEventType = EVENT_TAG_NO_EVENT
              => sReceiveBufferIndex <= 1
          /\ sReceivedEventType # EVENT_TAG_NO_EVENT
              => sReceiveBufferIndex <= FrameSize(sReceivedEventType)
          /\ StoresByte => sReceiveBufferIndex < RECEIVE_CALLBACK_DATA_SIZE)
    /\ [][CompletesFrame =>
             LET size == FrameSize(sReceivedEventType)
             IN  /\ size = sReceiveBufferIndex
                 /\ pos >= size + 2
                 /\ stream[pos - size] = sReceivedEventType
                 /\ \A i \in 0..(size - 1) :
                        sReceiveBuffer[i] = stream[pos - size + 1 + i]]_vars

C25_Witness ==
    /\ sReceivedEventType = EVENT_TAG_SLIDER_CALLBACK_ACTION
    /\ sReceiveBufferIndex = RECEIVE_CALLBACK_DATA_SIZE
    /\ ~sReceiveBufferOutOfSync
    /\ pos < Len(stream)
    /\ tByte = SYNC_TOKEN

\* the bytes received from position q on are [aTag][payload][SYNC_TOKEN],
\* after a length byte, and the payload is what aEvent holds
WindowAt(aEvent, q) ==
    LET size == FrameSize(aEvent.EventType)
    IN  /\ q >= 2
        /\ q + size + 1 <= pos
        /\ stream[q] = aEvent.EventType
        /\ \A i \in 0..(size - 1) : stream[q + 1 + i] = aEvent.ByteArray[i]
        /\ stream[q + size + 1] = SYNC_TOKEN

FromReceivedBytes(aEvent) ==
    aEvent.EventType # EVENT_TAG_NO_EVENT
    => \E q \in 1..pos : WindowAt(aEvent, q)

\* this step of the interrupt writes a slot or calls handleEvent
WritesSlot ==
    \/ remoteTouchEvent' # remoteTouchEvent
    \/ remoteTouchDownEvent' # remoteTouchDownEvent
    \/ isrDispatch' # isrDispatch

\* C26: no spurious events.  After initSimpleSerial both slots are empty,
\* and in every reachable state the EventType t and the first size(t)
\* payload bytes of a slot that is not empty are a contiguous window
\* [t][payload][SYNC_TOKEN] of the bytes received so far; the decoder
\* completes a frame only with the byte at offset 2 + size(t) behind the
\* length byte of that window, the sync token, never before.
C26_NoSpuriousEvents ==
    /\ [](/\ pos = 0 => /\ remoteTouchEvent.EventType = EVENT_TAG_NO_EVENT
                        /\ remoteTouchDownEvent.EventType = EVENT_TAG_NO_EVENT
          /\ FromReceivedBytes(remoteTouchEvent)
          /\ FromReceivedBytes(remoteTouchDownEvent))
    /\ [][(ByteArrives /\ WritesSlot) =>
             /\ sReceivedEventType # EVENT_TAG_NO_EVENT
             /\ tByte = SYNC_TOKEN
             /\ pos + 1 >= 3 + FrameSize(sReceivedEventType)
             /\ stream[pos - FrameSize(sReceivedEventType)]
                    = sReceivedEventType]_vars

C26_Witness ==
    /\ remoteTouchEvent.EventType = EVENT_TAG_TOUCH_ACTION_MOVE
    /\ remoteTouchDownEvent.EventType = EVENT_TAG_TOUCH_ACTION_DOWN
    /\ Len(scenario) = 3
    /\ pos = Len(stream)
    /\ WindowAt(remoteTouchEvent, 2)
    /\ \E q \in 8..pos : WindowAt(remoteTouchDownEvent, q)

\* C27: the decoder writes a slot without looking at its EventType.  A
\* completed TOUCH_DOWN frame replaces the tag and payload of an earlier
\* TOUCH_DOWN that is still unconsumed in the down slot: the down slot too
\* is last-write-wins among down events, and the general slot is left as
\* it is.
C27_DownSlotLastWriteWins ==
    [][ \A k \in ItemIdx :
          ( /\ k > 1
            /\ TagOf(k - 1) = EVENT_TAG_TOUCH_ACTION_DOWN
            /\ TagOf(k) = EVENT_TAG_TOUCH_ACTION_DOWN
            /\ IsFrame(remoteTouchDownEvent, k - 1)
            /\ LastByteOf(k) )
          => /\ IsFrame(remoteTouchDownEvent', k)
             /\ remoteTouchEvent' = remoteTouchEvent
             /\ ~SameFrame(k - 1, k)
                    => ~IsFrame(remoteTouchDownEvent', k - 1) ]_vars

C27_Witness ==
    /\ Len(scenario) = 2
    /\ TagOf(1) = EVENT_TAG_TOUCH_ACTION_DOWN /\ scenario[1].f.p = 1
    /\ TagOf(2) = EVENT_TAG_TOUCH_ACTION_DOWN /\ scenario[2].f.p = 2
    /\ pos = ItemEnd(2)
    /\ mainPc = "idle" /\ handled = <<>>
    /\ IsFrame(remoteTouchDownEvent, 2)
    /\ ~IsFrame(remoteTouchDownEvent, 1)

(***************************************************************************)
(* Further properties of the hand-over                                     *)
(***************************************************************************)
\* the frames completed into slot aName so far
CompletedInto(aName) ==
    {k \in ItemIdx : ItemEnd(k) <= pos /\ DestOf(k) = aName}

\* the main loop clears the EventType of the slot it has read
MainClears == mainPc = "payload" /\ mainPc' = "idle"

\* C28: the consumer's clear does not lose unseen events.  In
\* deferred-dispatch mode with the receive interrupt running between the
\* steps of the main loop, the main loop's clearing of EventType never
\* erases a frame completed after the main loop read the slot: the frame
\* the clear removes, the last one completed into that slot, is the frame
\* that is handed to the handler.
C28_ClearLosesNothing ==
    [][ MainClears =>
          \A k \in CompletedInto(mainEvent.slot) :
              (\A j \in CompletedInto(mainEvent.slot) : j <= k)
              => IsFrame(Last(handled'), k) ]_vars

(***************************************************************************)
(* Further invariants of the slots                                         *)
(***************************************************************************)
\* this step empties a slot that held an event
EmptiesSlot ==
    \/ /\ remoteTouchEvent.EventType # EVENT_TAG_NO_EVENT
       /\ remoteTouchEvent'.EventType = EVENT_TAG_NO_EVENT
    \/ /\ remoteTouchDownEvent.EventType # EVENT_TAG_NO_EVENT
       /\ remoteTouchDownEvent'.EventType = EVENT_TAG_NO_EVENT

\* C29: the decoder never stores NO_EVENT into a slot.  For every byte
\* sequence, whenever the receive interrupt writes the EventType of a slot
\* the value written is not EVENT_TAG_NO_EVENT (with interrupt-time
\* dispatch it is the value handleEvent is given); a slot that held an
\* event becomes empty only by the consumer: the main loop's dispatch, or
\* handleEvent called from the interrupt.
C29_NeverStoresNoEvent ==
    [][ /\ (ByteArrives /\ isrDispatch' = isrDispatch)
           => /\ remoteTouchEvent' # remoteTouchEvent
                 => remoteTouchEvent'.EventType # EVENT_TAG_NO_EVENT
              /\ remoteTouchDownEvent' # remoteTouchDownEvent
                 => remoteTouchDownEvent'.EventType # EVENT_TAG_NO_EVENT
        /\ (ByteArrives /\ isrDispatch' # isrDispatch)
           => /\ allowTouchInterrupts
              /\ Last(isrDispatch').type # EVENT_TAG_NO_EVENT
        /\ EmptiesSlot
           => \/ pos' = pos /\ isrDispatch' = isrDispatch
              \/ ByteArrives /\ isrDispatch' # isrDispatch ]_vars

C29_Witness ==
    /\ Len(scenario) = 3
    /\ scenario[1].kind = "frame" /\ TagOf(1) = EVENT_TAG_NO_EVENT
    /\ pos = Len(stream)
    /\ ~allowTouchInterrupts /\ isrDispatch = <<>>
    /\ remoteTouchEvent.EventType = EVENT_TAG_TOUCH_ACTION_MOVE
    /\ remoteTouchDownEvent.EventType = EVENT_TAG_NO_EVENT

(***************************************************************************)
(* The fixed-arity encoders against the variadic ones                      *)
(***************************************************************************)
\* C30: fixed-arity and variadic encoders agree.  For every tag and every
\* five 16 bit argument values sendUSART5Args(tag, a, b, c, d, e)
\* transmits exactly the bytes sendUSARTArgs(tag, 5, a, b, c, d, e)
\* transmits, and sendUSART5ArgsAndByteBuffer the bytes of
\* sendUSARTArgsAndByteBuffer with N = 5 and the same data buffer and
\* length: the bytes of the second call are at every moment the first
\* bytes of the first call, and all of them when the call has ended.
C30_EncodersAgree ==
    (pass = 2 /\ txCall.fn # "none")
    => /\ replay[1].fn \in {"sendUSART5Args", "sendUSART5ArgsAndByteBuffer"}
       /\ txCall.fn = VariadicOf(replay[1].fn)
       /\ IsPrefix(wire, trace)
       /\ txPc = "done" => wire = trace

C30_Witness ==
    /\ pass = 2
    /\ txCall.fn = "sendUSARTArgsAndByteBuffer"
    /\ replay[1].fn = "sendUSART5ArgsAndByteBuffer"
    /\ txCall.len = 2 /\ txCall.tag = 128 /\ txCall.rot = 1
    /\ txPc = "done"
    /\ Len(wire) = 20
    /\ wire = trace

(***************************************************************************)
(* The polled decoder against the receive interrupt                        *)
(***************************************************************************)
\* the calls of handleEvent the receive interrupt made on the stream
InterruptEvents == IF trace = <<>> THEN <<>> ELSE Last(trace).dispatched

\* tag and payload of a completed event
EventOf(aCall) ==
    [type |-> aCall.type,
     payload |-> [i \in 0..(FrameSize(aCall.type) - 1) |-> aCall.data[i]]]

\* serialEvent cannot go on with the bytes that are there
Drained ==
    /\ pos + serialAvailable = Len(stream)
    /\ IF sReceiveBufferOutOfSync THEN serialAvailable = 0
       ELSE IF sReceivedEventType = EVENT_TAG_NO_EVENT
            THEN serialAvailable < 2
            ELSE serialAvailable <= FrameSize(sReceivedEventType)

\* C31: polled and interrupt decoders agree.  For every received byte
\* stream the events (tag, payload) serialEvent completes are, in order,
\* the events the byte-at-a-time receive interrupt completes, each with the
\* same byte of the stream, and both decoders are OUT_OF_SYNC after the
\* same bytes; when serialEvent has been called until the input is drained
\* it has completed all of them.  serialEvent always uses the general slot
\* and always dispatches.
C31_DecodersAgree ==
    pass = 2
    => /\ Len(isrDispatch) <= Len(InterruptEvents)
       /\ \A i \in 1..Len(isrDispatch) :
              /\ EventOf(isrDispatch[i]) = EventOf(InterruptEvents[i])
              /\ isrDispatch[i].at = InterruptEvents[i].at
              /\ isrDispatch[i].slot = "general"
       /\ \A i \in 1..Len(InterruptEvents) :
              InterruptEvents[i].at <= pos => i <= Len(isrDispatch)
       /\ pos > 0 => sReceiveBufferOutOfSync = trace[pos].outOfSync
       /\ Drained
              => /\ Len(isrDispatch) = Len(InterruptEvents)
                 /\ sReceiveBufferOutOfSync = Last(trace).outOfSync
       /\ remoteTouchDownEvent.EventType = EVENT_TAG_NO_EVENT

C31_Witness ==
    /\ pass = 2
    /\ Len(scenario) = 2
    /\ TagOf(1) = EVENT_TAG_TOUCH_ACTION_DOWN /\ WellFormed(scenario[1])
    /\ TagOf(2) = EVENT_TAG_SLIDER_CALLBACK_ACTION /\ WellFormed(scenario[2])
    /\ Drained
    /\ pos = Len(stream)
    /\ Len(isrDispatch) = 2
    /\ InterruptEvents[1].slot = "down"
    /\ isrDispatch[1].slot = "general"

(***************************************************************************)
(* The chart functions                                                     *)
(***************************************************************************)
\* a call of one of the two step functions has returned
StepReturned ==
    /\ chartCall.fn \in {"stepXLabelStartValueInt", "stepYLabelStartValueInt"}
    /\ ~chartCall.trapped
\* the start value the call left behind
SteppedStart ==
    IF chartCall.axis = "X" THEN mXLabelStartValue ELSE mYLabelStartValue
\* a + b > m and a - b < m as numbers, whatever an int can hold
SumAbove(a, b, m) ==
    IF AddOverflows(a, b) THEN b > 0 ELSE a + b > m
DiffBelow(a, b, m) ==
    IF SubOverflows(a, b) THEN b > 0 ELSE a - b < m
\* the start value is min(old + increment, aMaxValue) resp.
\* max(old - increment, aMinValue), and the result is FALSE exactly when the
\* bound was substituted
ClippedStep(aOld, aIncrement, aDoIncrement, aMinValue, aMaxValue, aNew, aResult) ==
    IF aDoIncrement
    THEN IF SumAbove(aOld, aIncrement, aMaxValue)
         THEN aNew = aMaxValue /\ aResult = FALSE
         ELSE /\ ~AddOverflows(aOld, aIncrement)
              /\ aNew = aOld + aIncrement
              /\ aResult = TRUE
    ELSE IF DiffBelow(aOld, aIncrement, aMinValue)
         THEN aNew = aMinValue /\ aResult = FALSE
         ELSE /\ ~SubOverflows(aOld, aIncrement)
              /\ aNew = aOld - aIncrement
              /\ aResult = TRUE

\* C32: stepXLabelStartValueInt and stepYLabelStartValueInt return true
\* exactly when the start value was not clipped: on increment the new start
\* value is min(old + increment, aMaxValue), on decrement it is
\* max(old - increment, aMinValue), and the result is false if and only if
\* the bound was substituted for the stepped value.
C32_StepClips ==
    StepReturned =>
        ClippedStep(chartCall.old, chartCall.increment,
                    chartCall.aDoIncrement, chartCall.aMinValue,
                    chartCall.aMaxValue, SteppedStart, chartCall.ret)

\* a call of adjustIntWithScaleFactor has returned
AdjustReturned ==
    chartCall.fn = "adjustIntWithScaleFactor" /\ ~chartCall.trapped
\* q is v / k truncated toward zero (k > 0)
IsTruncatedQuotient(q, v, k) ==
    IF v >= 0 THEN q >= 0 /\ q * k <= v /\ v - q * k < k
    ELSE q <= 0 /\ q * k >= v /\ q * k - v < k
\* v * 2 / 3 and v * 3 / 2 as numbers, truncated: with v = 3 q + r the first
\* is 2 q + (2 r) / 3, with v = 2 q + r the second is 3 q + r
TwoThirds(v) ==
    LET q == CDiv(v, 3)
        r == v - 3 * q
    IN  2 * q + (IF r = 2 THEN 1 ELSE IF r = 0 - 2 THEN 0 - 1 ELSE 0)
ThreeHalvesFits(v) ==
    LET q == CDiv(v, 2) IN q <= INT_MAX \div 3 /\ q >= 0 - (INT_MAX \div 3)
ThreeHalves(v) ==
    LET q == CDiv(v, 2) IN 3 * q + (v - 2 * q)
\* the documented table
FollowsTable(aValue, aScaleFactor, aResult) ==
    IF aScaleFactor = 0 THEN aResult = aValue
    ELSE IF aScaleFactor > 1
    THEN IsTruncatedQuotient(aResult, aValue, aScaleFactor)
    ELSE IF aScaleFactor = 1 THEN aResult = TwoThirds(aValue)
    ELSE IF aScaleFactor = 0 - 1
    THEN ThreeHalvesFits(aValue) /\ aResult = ThreeHalves(aValue)
    ELSE /\ ~MulOverflows(aValue, 0 - aScaleFactor)
         /\ aResult = aValue * (0 - aScaleFactor)

\* C33: adjustIntWithScaleFactor follows its documented table for every
\* value and every scale factor: factor 0 is the identity, factor k > 1
\* divides the value by k, factor 1 yields value * 2 / 3, factor -1 yields
\* value * 3 / 2, factor k < -1 multiplies the value by -k, with integer
\* truncation.
C33_AdjustFollowsTable ==
    AdjustReturned =>
        FollowsTable(chartCall.aValue, chartCall.aScaleFactor, chartCall.ret)

\* initChart has returned
InitChartReturned == chartCall.fn = "initChart"
\* an axes size the chart cannot have
InvalidAxesSize(aAxesSize) ==
    aAxesSize = 0 \/ aAxesSize > CHART_MAX_AXES_SIZE

\* C34: checkParameterValues rejects an invalid axes size: for every axes
\* size that is 0 or greater than CHART_MAX_AXES_SIZE, initChart sets
\* mAxesSize to CHART_MAX_AXES_SIZE and reports an error, so that after
\* initChart 1 <= mAxesSize <= CHART_MAX_AXES_SIZE always holds.
C34_AxesSizeChecked ==
    InitChartReturned =>
        /\ InvalidAxesSize(chartCall.aAxesSize) =>
               /\ mAxesSize = CHART_MAX_AXES_SIZE
               /\ chartCall.ret # CHART_NO_ERROR
        /\ mAxesSize >= 1
        /\ mAxesSize <= CHART_MAX_AXES_SIZE

\* drawChartData has returned
DrawReturned == chartCall.fn = "drawChartData"

\* C35: drawChartData stays inside the data buffer: for every X scale
\* factor, every chart width and every data range
\* [aDataPointer, aDataEndPointer) the function never reads an element at or
\* beyond aDataEndPointer, and it draws at most mWidthX values.
C35_DrawStaysInside ==
    DrawReturned =>
        /\ \A e \in chartCall.reads : e < chartCall.aDataLength
        /\ chartCall.drawn <= mWidthX

(***************************************************************************)
(* initSimpleSerial in the middle of a stream                              *)
(***************************************************************************)
\* a store of initSimpleSerial
InitStores == mainPc' # mainPc

\* C36: initSimpleSerial resets only the two slots: it sets both slots'
\* EventType to NO_EVENT and leaves the decoder's out-of-sync flag, receive
\* index, captured tag and receive buffer unchanged, so a call made in the
\* middle of a frame does not return the decoder to IDLE.
C36_InitResetsOnlySlots ==
    [][InitStores =>
           /\ sReceiveBufferOutOfSync' = sReceiveBufferOutOfSync
           /\ sReceiveBufferIndex' = sReceiveBufferIndex
           /\ sReceivedEventType' = sReceivedEventType
           /\ sReceiveBuffer' = sReceiveBuffer
           /\ ~DecoderIdle => ~DecoderIdle'
           /\ remoteTouchEvent'.ByteArray = remoteTouchEvent.ByteArray
           /\ remoteTouchDownEvent'.ByteArray = remoteTouchDownEvent.ByteArray
           /\ IF mainPc = "idle"
              THEN /\ remoteTouchEvent'.EventType = EVENT_TAG_NO_EVENT
                   /\ remoteTouchDownEvent' = remoteTouchDownEvent
              ELSE /\ remoteTouchDownEvent'.EventType = EVENT_TAG_NO_EVENT
                   /\ remoteTouchEvent' = remoteTouchEvent]_vars
\* the first store has emptied a general slot that held an event while the
\* decoder is inside the payload of the next frame
C36_Witness ==
    /\ mainPc = "initSimpleSerial:102"
    /\ remoteTouchEvent.EventType = EVENT_TAG_NO_EVENT
    /\ \E i \in BufIdx : remoteTouchEvent.ByteArray[i] # 0
    /\ sReceivedEventType # EVENT_TAG_NO_EVENT
    /\ sReceiveBufferIndex > 0

(***************************************************************************)
(* What a completed frame overwrites                                       *)
(***************************************************************************)
\* payload byte i of the frame that ends with the byte at pos + 1
ReceivedPayload(aSize, i) == stream[pos + 1 - aSize + i]
\* the slot's payload bytes below aSize are those of the frame, the others
\* are the old ones
Overwrites(aOld, aNew, aSize) ==
    \A i \in BufIdx :
        aNew.ByteArray[i] = IF i < aSize THEN ReceivedPayload(aSize, i)
                            ELSE aOld.ByteArray[i]

\* C37: a completed touch-class frame copies only the 4 touch payload bytes
\* into its slot: the slot's payload bytes at positions 4 and above keep the
\* values they had before (for the general slot, the tail of an earlier
\* callback event), while a completed callback-class frame overwrites all
\* RECEIVE_CALLBACK_DATA_SIZE payload bytes.
C37_TouchFrameKeepsTail ==
    [][CompletesFrame =>
           IF sReceivedEventType = EVENT_TAG_TOUCH_ACTION_DOWN
           THEN /\ Overwrites(remoteTouchDownEvent, remoteTouchDownEvent', 4)
                /\ remoteTouchEvent' = remoteTouchEvent
           ELSE /\ remoteTouchDownEvent' = remoteTouchDownEvent
                /\ IF sReceivedEventType < EVENT_TAG_FIRST_CALLBACK_ACTION_CODE
                   THEN Overwrites(remoteTouchEvent, remoteTouchEvent', 4)
                   ELSE Overwrites(remoteTouchEvent, remoteTouchEvent',
                                   RECEIVE_CALLBACK_DATA_SIZE)]_vars
\* the general slot holds a touch move in its first 4 bytes and, behind
\* them, the tail of the button callback received before
C37_Witness ==
    /\ Len(scenario) >= 2
    /\ pos = Len(stream)
    /\ TagOf(Len(scenario)) = EVENT_TAG_TOUCH_ACTION_MOVE
    /\ TagOf(Len(scenario) - 1) = EVENT_TAG_BUTTON_CALLBACK_ACTION
    /\ WellFormed(scenario[Len(scenario)])
    /\ WellFormed(scenario[Len(scenario) - 1])
    /\ ItemStart(Len(scenario) - 1) \in idleAt
    /\ Holds(remoteTouchEvent, Len(scenario))
    /\ \A i \in 4..11 :
           /\ remoteTouchEvent.ByteArray[i] # 0
           /\ remoteTouchEvent.ByteArray[i]
                  = PayloadOf(Len(scenario) - 1)[i + 1]
====
